---- MODULE Spec2Model ----
(***************************************************************************)
(* A model of oracle2databricks/connect_by_converter.py: the converter of  *)
(* Oracle CONNECT BY queries to recursive CTEs.                            *)
(*                                                                         *)
(* Text is a sequence of tokens.  A token is a maximal run of word         *)
(* characters (\w+), one punctuation mark or operator, or one whitespace   *)
(* character; so adjacency (no whitespace between two tokens) is explicit  *)
(* and the regular expressions of the source are matched token by token.   *)
(***************************************************************************)
EXTENDS Integers, Sequences, FiniteSets, TLC

VARIABLES cte_counter, pc, sql, result, trace, jin, jout, converters, self, threads

vars == <<cte_counter, pc, sql, result, trace, jin, jout, converters, self, threads>>

(***************************************************************************)
(* Bounds of the model.                                                    *)
(***************************************************************************)
MaxCalls == 2
MaxPad == 1
MaxLimit == 3
MaxThreadCalls == 1
MaxDepth == 3

(***************************************************************************)
(* Characters classes, token by token.                                     *)
(***************************************************************************)
WS == {" ", "\n", "\t"}

Punct == {",", "(", ")", ".", ";", "'", "/", "+", "-", "*", "||", "=", "<", ">",
          "<=", ">=", "!=", "<>", "--", ":"}

\* the tokens [<>=!]+ can match
OpTokens == {"=", "<", ">", "<=", ">=", "!=", "<>"}

IsWs(t) == t \in WS

IsWord(t) == t \notin WS /\ t \notin Punct

\* str.upper() on the words of the vocabulary that are spelled in lower case
Upper(t) ==
  CASE t = "select" -> "SELECT"
    [] t = "from" -> "FROM"
    [] t = "dual" -> "DUAL"
    [] t = "connect" -> "CONNECT"
    [] t = "by" -> "BY"
    [] t = "prior" -> "PRIOR"
    [] t = "level" -> "LEVEL"
    [] t = "start" -> "START"
    [] t = "with" -> "WITH"
    [] t = "and" -> "AND"
    [] t = "as" -> "AS"
    [] t = "nocycle" -> "NOCYCLE"
    [] t = "where" -> "WHERE"
    [] t = "order" -> "ORDER"
    [] t = "connect_by_root" -> "CONNECT_BY_ROOT"
    [] t = "connect_by_isleaf" -> "CONNECT_BY_ISLEAF"
    [] t = "sys_connect_by_path" -> "SYS_CONNECT_BY_PATH"
    [] OTHER -> t

\* 'LEVEL' in t.upper(), equally 'level' in t.lower()
LevelExprNames == {"level_expr_" \o ToString(n) : n \in 0..8}

ContainsLevel(t) ==
  \/ Upper(t) = "LEVEL"
  \/ t \in {"job_level", "JOB_LEVEL"}
  \/ t \in LevelExprNames

\* 'CONNECT_BY' in t.upper()
ContainsConnectBy(t) ==
  Upper(t) \in {"CONNECT_BY_ROOT", "CONNECT_BY_ISLEAF", "SYS_CONNECT_BY_PATH"}

\* str.isdigit() and int() on the numerals of the model
NumeralValues == 0..99

Numerals == {ToString(n) : n \in NumeralValues}

IsDigits(t) == t \in Numerals

ParseInt(t) == CHOOSE n \in NumeralValues : ToString(n) = t

(***************************************************************************)
(* Sequences of tokens.                                                    *)
(***************************************************************************)
Slice(s, i, j) == IF i > j THEN <<>> ELSE SubSeq(s, i, j)

RECURSIVE SkipWs(_, _)
SkipWs(s, i) == IF i <= Len(s) /\ IsWs(s[i]) THEN SkipWs(s, i + 1) ELSE i

RECURSIVE SkipWsBack(_, _)
SkipWsBack(s, j) == IF j >= 1 /\ IsWs(s[j]) THEN SkipWsBack(s, j - 1) ELSE j

\* str.strip()
Strip(s) == Slice(s, SkipWs(s, 1), SkipWsBack(s, Len(s)))

RECURSIVE Concat(_)
Concat(ss) == IF ss = <<>> THEN <<>> ELSE Head(ss) \o Concat(Tail(ss))

\* sep.join(parts)
RECURSIVE Join(_, _)
Join(parts, sep) ==
  IF parts = <<>> THEN <<>>
  ELSE IF Len(parts) = 1 THEN parts[1]
  ELSE parts[1] \o sep \o Join(Tail(parts), sep)

\* ' '.join(sql.split())
RECURSIVE NormalizeFrom(_, _)
NormalizeFrom(s, i) ==
  LET j == SkipWs(s, i)
  IN IF j > Len(s) THEN <<>>
     ELSE (IF i > 1 /\ j > i THEN <<" ">> ELSE <<>>) \o <<s[j]>> \o NormalizeFrom(s, j + 1)

Normalize(s) == NormalizeFrom(s, SkipWs(s, 1))

KwAt(s, i, kw) == i >= 1 /\ i <= Len(s) /\ Upper(s[i]) = kw

\* kws[1] \s+ kws[2] \s+ ... at token i: the index after the last keyword, 0 if no match
RECURSIVE KwSeqEnd(_, _, _)
KwSeqEnd(s, i, kws) ==
  IF ~KwAt(s, i, kws[1]) THEN 0
  ELSE IF Len(kws) = 1 THEN i + 1
  ELSE LET j == SkipWs(s, i + 1)
       IN IF j = i + 1 THEN 0 ELSE KwSeqEnd(s, j, Tail(kws))

\* the first i >= from where kws match and whitespace follows (\bK1\s+K2\s+), 0 if none
RECURSIVE FindKwSeqWs(_, _, _)
FindKwSeqWs(s, from, kws) ==
  IF from > Len(s) THEN 0
  ELSE LET e == KwSeqEnd(s, from, kws)
       IN IF e # 0 /\ e <= Len(s) /\ IsWs(s[e]) THEN from
          ELSE FindKwSeqWs(s, from + 1, kws)

\* the first i >= from where kws match (\bK1\s+K2), 0 if none
RECURSIVE FindKwSeq(_, _, _)
FindKwSeq(s, from, kws) ==
  IF from > Len(s) THEN 0
  ELSE IF KwSeqEnd(s, from, kws) # 0 THEN from
  ELSE FindKwSeq(s, from + 1, kws)

\* the lookahead (?=\s*K..|\s*K..|\s*$) at token p; stops is the set of keyword sequences
StopAt(s, p, stops) ==
  LET q == SkipWs(s, p)
  IN q > Len(s) \/ \E k \in stops : KwSeqEnd(s, q, k) # 0

\* (.*?)(?=...) from token i: the index after the lazy group
RECURSIVE LazyEnd(_, _, _)
LazyEnd(s, i, stops) ==
  IF i > Len(s) \/ StopAt(s, i, stops) THEN i ELSE LazyEnd(s, i + 1, stops)

\* \bK1\s+K2\s+(.*?)(?=stops): <<found, group(1).strip()>>
Clause(s, kws, stops) ==
  LET i == FindKwSeqWs(s, 1, kws)
      b == SkipWs(s, KwSeqEnd(s, i, kws))
  IN IF i = 0 THEN [found |-> FALSE, text |-> <<>>]
     ELSE [found |-> TRUE, text |-> Strip(Slice(s, b, LazyEnd(s, b, stops) - 1))]

(***************************************************************************)
(* ConnectByComponents.  An absent clause (None) and an empty one are both *)
(* the empty text: the source only ever tests these fields for truth.      *)
(***************************************************************************)
NoComponents ==
  [ok |-> FALSE, select_clause |-> <<>>, from_clause |-> <<>>, where_clause |-> <<>>,
   start_with_clause |-> <<>>, connect_by_clause |-> <<>>, order_siblings_by |-> <<>>,
   order_by_clause |-> <<>>, group_by_clause |-> <<>>, having_clause |-> <<>>,
   has_prior |-> FALSE, has_nocycle |-> FALSE, has_level |-> FALSE,
   has_sys_connect_by_path |-> FALSE, has_connect_by_root |-> FALSE,
   has_connect_by_isleaf |-> FALSE, is_sequence_generator |-> FALSE,
   level_limit |-> "", table_alias |-> ""]

\* 'CONNECT BY' in text.upper()
HasConnectBySpace(s) ==
  \E i \in 1..(Len(s) - 2) :
    Upper(s[i]) = "CONNECT" /\ s[i + 1] = " " /\ Upper(s[i + 2]) = "BY"

\* 'LEVEL' in text.upper()
HasLevel(s) == \E i \in 1..Len(s) : ContainsLevel(s[i])

\* 'CONNECT_BY' in text.upper()
HasConnectByUnderscore(s) == \E i \in 1..Len(s) : ContainsConnectBy(s[i])

\* variant: detection on the whitespace-normalised text
DetectNormalized(s) == HasConnectBySpace(Normalize(s)) \/ HasConnectByUnderscore(Normalize(s))

_is_connect_by_query(s) == HasConnectBySpace(s) \/ HasConnectByUnderscore(s)

has_connect_by(s) == HasConnectBySpace(s)

\* CONNECT\s+BY\s+LEVEL\s*<=\s*(\d+|\w+) at token i: the index of the limit, 0 if no match
LevelLimitAt(s, i) ==
  LET e == KwSeqEnd(s, i, <<"CONNECT", "BY", "LEVEL">>)
      g == SkipWs(s, e)
      h == SkipWs(s, g + 1)
  IN IF e # 0 /\ g <= Len(s) /\ s[g] = "<=" /\ h <= Len(s) /\ IsWord(s[h]) THEN h ELSE 0

RECURSIVE FindLevelLimit(_, _)
FindLevelLimit(s, from) ==
  IF from > Len(s) THEN 0
  ELSE IF LevelLimitAt(s, from) # 0 THEN LevelLimitAt(s, from)
  ELSE FindLevelLimit(s, from + 1)

\* \bFROM\s+DUAL\b.*\bCONNECT\s+BY\s+LEVEL\s*<=\s*(\d+|\w+)
dual_pattern(s) ==
  \E i \in 1..Len(s) :
    LET e == KwSeqEnd(s, i, <<"FROM", "DUAL">>)
    IN e # 0 /\ FindLevelLimit(s, e) # 0

\* the first ws token p >= from with \s+FROM\s+ (then the words of then) at p, 0 if none
RECURSIVE FindWsFrom(_, _, _)
FindWsFrom(s, from, then) ==
  IF from > Len(s) THEN 0
  ELSE LET e == KwSeqEnd(s, SkipWs(s, from), <<"FROM">> \o then)
       IN IF IsWs(s[from]) /\ e # 0 /\ (then # <<>> \/ (e <= Len(s) /\ IsWs(s[e]))) THEN from
          ELSE FindWsFrom(s, from + 1, then)

\* ^\s*SELECT\s+(.*?)\s+FROM\s+<then>: <<matched, group(1).strip()>>
SelectMatch(s, then) ==
  LET i == SkipWs(s, 1)
      b == SkipWs(s, i + 1)
      p == FindWsFrom(s, b, then)
  IN IF KwAt(s, i, "SELECT") /\ b > i + 1 /\ p # 0
     THEN [found |-> TRUE, text |-> Strip(Slice(s, b, p - 1))]
     ELSE [found |-> FALSE, text |-> <<>>]

\* [\w.]+ from token i: the index after the run
RECURSIVE WordRunEnd(_, _)
WordRunEnd(s, i) ==
  IF i <= Len(s) /\ (IsWord(s[i]) \/ s[i] = ".") THEN WordRunEnd(s, i + 1) ELSE i

ClauseKeywords == {"WHERE", "START", "CONNECT", "ORDER", "GROUP", "HAVING"}

\* the keywords of the lookahead have no trailing \b: a word that starts with one matches
HasClausePrefix(t) ==
  Upper(t) \in ClauseKeywords \cup {"CONNECT_BY_ROOT", "CONNECT_BY_ISLEAF"}

\* (?=\s+(?:WHERE|START|CONNECT|ORDER|GROUP|HAVING|$)) at token p
FromLookahead(s, p) ==
  LET q == SkipWs(s, p)
  IN p <= Len(s) /\ IsWs(s[p]) /\ (q > Len(s) \/ HasClausePrefix(s[q]))

\* \bFROM\s+([\w.]+)(?:\s+(?:AS\s+)?(\w+))?(?=...) at token i
FromAt(s, i) ==
  LET j == SkipWs(s, i + 1)
      r == WordRunEnd(s, j)
      a == SkipWs(s, r)
      a2 == SkipWs(s, a + 1)
      base == KwAt(s, i, "FROM") /\ j > i + 1 /\ r > j
      table == Slice(s, j, r - 1)
      withAs == a > r /\ KwAt(s, a, "AS") /\ a2 > a + 1 /\ a2 <= Len(s) /\ IsWord(s[a2])
                  /\ FromLookahead(s, a2 + 1)
      noAs == a > r /\ a <= Len(s) /\ IsWord(s[a]) /\ FromLookahead(s, a + 1)
  IN IF ~base THEN [found |-> FALSE, table |-> <<>>, alias |-> ""]
     ELSE IF withAs THEN [found |-> TRUE, table |-> table, alias |-> s[a2]]
     ELSE IF noAs THEN [found |-> TRUE, table |-> table, alias |-> s[a]]
     ELSE IF FromLookahead(s, r) THEN [found |-> TRUE, table |-> table, alias |-> ""]
     ELSE [found |-> FALSE, table |-> <<>>, alias |-> ""]

FirstFound(m, rest) == IF m.found THEN m ELSE rest

RECURSIVE FromSearch(_, _)
FromSearch(s, i) ==
  IF i > Len(s) THEN [found |-> FALSE, table |-> <<>>, alias |-> ""]
  ELSE FirstFound(FromAt(s, i), FromSearch(s, i + 1))

\* the fallback \bFROM\s+([\w.]+)
RECURSIVE FromFallback(_, _)
FromFallback(s, i) ==
  IF i > Len(s) THEN [found |-> FALSE, table |-> <<>>, alias |-> ""]
  ELSE LET j == SkipWs(s, i + 1)
           r == WordRunEnd(s, j)
       IN IF KwAt(s, i, "FROM") /\ j > i + 1 /\ r > j
          THEN [found |-> TRUE, table |-> Slice(s, j, r - 1), alias |-> ""]
          ELSE FromFallback(s, i + 1)

\* lines 201-203: an alias that is a clause keyword is dropped
DropKeywordAlias(m) ==
  IF Upper(m.alias) \in ClauseKeywords THEN [m EXCEPT !.alias = ""] ELSE m

\* lines 187-210: table and alias
from_pattern(s) == DropKeywordAlias(FirstFound(FromSearch(s, 1), FromFallback(s, 1)))

StartWithStops ==
  {<<"CONNECT", "BY">>, <<"ORDER", "SIBLINGS", "BY">>, <<"ORDER", "BY">>, <<"GROUP", "BY">>}

ConnectByStops ==
  {<<"START", "WITH">>, <<"ORDER", "SIBLINGS", "BY">>, <<"ORDER", "BY">>, <<"GROUP", "BY">>,
   <<"HAVING">>}

WhereStops ==
  {<<"START", "WITH">>, <<"CONNECT", "BY">>, <<"ORDER", "BY">>, <<"GROUP", "BY">>}

\* \bCONNECT\s+BY\s+(NOCYCLE\s+)?(.*?)(?=...)
connect_by_match(s) ==
  LET i == FindKwSeqWs(s, 1, <<"CONNECT", "BY">>)
      b == SkipWs(s, KwSeqEnd(s, i, <<"CONNECT", "BY">>))
      n == SkipWs(s, b + 1)
      nocycle == KwAt(s, b, "NOCYCLE") /\ n > b + 1
      c == IF nocycle THEN n ELSE b
  IN IF i = 0 THEN [found |-> FALSE, nocycle |-> FALSE, text |-> <<>>]
     ELSE [found |-> TRUE, nocycle |-> nocycle,
           text |-> Strip(Slice(s, c, LazyEnd(s, c, ConnectByStops) - 1))]

\* \bORDER\s+SIBLINGS\s+BY\s+.*?\s+ORDER\s+BY\s+(.*?)(?=\s*$)
RECURSIVE FindWsOrderBy(_, _)
FindWsOrderBy(s, from) ==
  IF from > Len(s) THEN 0
  ELSE LET e == KwSeqEnd(s, SkipWs(s, from), <<"ORDER", "BY">>)
       IN IF IsWs(s[from]) /\ e # 0 /\ e <= Len(s) /\ IsWs(s[e]) THEN e
          ELSE FindWsOrderBy(s, from + 1)

OrderByAfterSiblings(s) ==
  LET i == FindKwSeqWs(s, 1, <<"ORDER", "SIBLINGS", "BY">>)
      b == SkipWs(s, KwSeqEnd(s, i, <<"ORDER", "SIBLINGS", "BY">>))
      e == FindWsOrderBy(s, b)
  IN IF i = 0 \/ e = 0 THEN <<>> ELSE Strip(Slice(s, SkipWs(s, e), Len(s)))

\* \bORDER\s+BY\s+(.*?)(?=\s*$)
order_by_to_end(s) == Clause(s, <<"ORDER", "BY">>, {}).text

_parse_sequence_generator(s) ==
  LET select_match == SelectMatch(s, <<"DUAL">>)
      limit == FindLevelLimit(s, 1)
  IN [NoComponents EXCEPT
        !.ok = TRUE,
        !.select_clause = IF select_match.found THEN select_match.text ELSE <<"LEVEL">>,
        !.from_clause = <<"DUAL">>,
        !.is_sequence_generator = TRUE,
        !.level_limit = IF limit # 0 THEN s[limit] ELSE "10",
        !.order_by_clause = order_by_to_end(s),
        !.has_level = TRUE]

\* lines 176-281 once the statement is normalised and its four matches are taken
Components(s, select_match, from_match, cb, siblings) ==
  IF ~select_match.found THEN NoComponents
  ELSE IF ~from_match.found THEN NoComponents
  ELSE IF ~cb.found THEN NoComponents
  ELSE [NoComponents EXCEPT
          !.ok = TRUE,
          !.select_clause = select_match.text,
          !.from_clause = from_match.table,
          !.table_alias = from_match.alias,
          !.start_with_clause = Clause(s, <<"START", "WITH">>, StartWithStops).text,
          !.connect_by_clause = cb.text,
          !.has_nocycle = cb.nocycle,
          !.has_prior = \E i \in 1..Len(cb.text) : Upper(cb.text[i]) = "PRIOR",
          !.where_clause = Clause(s, <<"WHERE">>, WhereStops).text,
          !.order_siblings_by = siblings,
          !.order_by_clause = IF siblings # <<>> THEN OrderByAfterSiblings(s)
                              ELSE order_by_to_end(s),
          !.group_by_clause = Clause(s, <<"GROUP", "BY">>, {<<"HAVING">>, <<"ORDER">>}).text,
          !.has_level = HasLevel(s) /\ HasConnectBySpace(s),
          !.has_sys_connect_by_path =
              \E i \in 1..Len(s) : Upper(s[i]) = "SYS_CONNECT_BY_PATH",
          !.has_connect_by_root = \E i \in 1..Len(s) : Upper(s[i]) = "CONNECT_BY_ROOT",
          !.has_connect_by_isleaf = \E i \in 1..Len(s) : Upper(s[i]) = "CONNECT_BY_ISLEAF"]

\* lines 167-174: the sequence generator is recognised before anything else is parsed
ParseNormalized(s) ==
  IF dual_pattern(s) THEN _parse_sequence_generator(s)
  ELSE Components(s, SelectMatch(s, <<>>), from_pattern(s), connect_by_match(s),
                  Clause(s, <<"ORDER", "SIBLINGS", "BY">>, {<<"ORDER", "BY">>}).text)

_parse_connect_by_query(raw) == ParseNormalized(Normalize(raw))

(***************************************************************************)
(* Join inference.  None and the empty text are both <<>>.                 *)
(***************************************************************************)
Tok(x) == IF x = "" THEN <<>> ELSE <<x>>

\* col.split('.')[-1] of a run [\w.]+
LastSegment(run) == IF run = <<>> \/ run[Len(run)] = "." THEN "" ELSE run[Len(run)]

\* f"{table_alias}.{child_col} = {cte_name}.{parent_col}"
JoinText(table_alias, child_col, cte_name, parent_col) ==
  Tok(table_alias) \o <<".">> \o Tok(child_col) \o <<" ", "=", " ">>
    \o Tok(cte_name) \o <<".">> \o Tok(parent_col)

\* \s*PRIOR\s+([\w.]+)\s*=\s*([\w.]+)\s*$
prior_left(cb) ==
  LET i == SkipWs(cb, 1)
      j == SkipWs(cb, i + 1)
      r == WordRunEnd(cb, j)
      g == SkipWs(cb, r)
      h == SkipWs(cb, g + 1)
      r2 == WordRunEnd(cb, h)
  IN IF KwAt(cb, i, "PRIOR") /\ j > i + 1 /\ r > j /\ g <= Len(cb) /\ cb[g] = "="
          /\ r2 > h /\ SkipWs(cb, r2) > Len(cb)
     THEN [found |-> TRUE, parent |-> Slice(cb, j, r - 1), child |-> Slice(cb, h, r2 - 1)]
     ELSE [found |-> FALSE, parent |-> <<>>, child |-> <<>>]

\* variant: the two groups of the second shape taken in the order of the first
PriorRightSwapped(cb) ==
  LET i == SkipWs(cb, 1)
      r == WordRunEnd(cb, i)
      g == SkipWs(cb, r)
      h == SkipWs(cb, g + 1)
      j == SkipWs(cb, h + 1)
      r2 == WordRunEnd(cb, j)
  IN IF r > i /\ g <= Len(cb) /\ cb[g] = "=" /\ KwAt(cb, h, "PRIOR") /\ j > h + 1
          /\ r2 > j /\ SkipWs(cb, r2) > Len(cb)
     THEN [found |-> TRUE, parent |-> Slice(cb, i, r - 1), child |-> Slice(cb, j, r2 - 1)]
     ELSE [found |-> FALSE, parent |-> <<>>, child |-> <<>>]

\* \s*([\w.]+)\s*=\s*PRIOR\s+([\w.]+)\s*$
prior_right(cb) ==
  LET i == SkipWs(cb, 1)
      r == WordRunEnd(cb, i)
      g == SkipWs(cb, r)
      h == SkipWs(cb, g + 1)
      j == SkipWs(cb, h + 1)
      r2 == WordRunEnd(cb, j)
  IN IF r > i /\ g <= Len(cb) /\ cb[g] = "=" /\ KwAt(cb, h, "PRIOR") /\ j > h + 1
          /\ r2 > j /\ SkipWs(cb, r2) > Len(cb)
     THEN [found |-> TRUE, child |-> Slice(cb, i, r - 1), parent |-> Slice(cb, j, r2 - 1)]
     ELSE [found |-> FALSE, parent |-> <<>>, child |-> <<>>]

\* ' AND ' in connect_by.upper()
HasSpacedAnd(cb) ==
  \E i \in 1..(Len(cb) - 2) : cb[i] = " " /\ Upper(cb[i + 1]) = "AND" /\ cb[i + 2] = " "

\* the first \s+AND\s+ at or after token p: <<start, index after>>, <<0, 0>> if none
RECURSIVE FindAnd(_, _)
FindAnd(cb, p) ==
  IF p > Len(cb) THEN <<0, 0>>
  ELSE LET q == SkipWs(cb, p)
           r == SkipWs(cb, q + 1)
       IN IF IsWs(cb[p]) /\ KwAt(cb, q, "AND") /\ r > q + 1 THEN <<p, r>>
          ELSE FindAnd(cb, p + 1)

\* re.split(r'\s+AND\s+', connect_by)
RECURSIVE SplitAnd(_)
SplitAnd(cb) ==
  LET m == FindAnd(cb, 1)
  IN IF m[1] = 0 THEN <<cb>>
     ELSE <<Slice(cb, 1, m[1] - 1)>> \o SplitAnd(Slice(cb, m[2], Len(cb)))

RECURSIVE _parse_connect_by_condition(_, _, _)
RECURSIVE ConvertedConditions(_, _, _)

\* lines 523-527: the conjuncts that convert, the others are skipped
ConvertedConditions(conditions, table_alias, cte_name) ==
  IF conditions = <<>> THEN <<>>
  ELSE LET converted == _parse_connect_by_condition(Strip(Head(conditions)), table_alias, cte_name)
       IN (IF converted # <<>> THEN <<converted>> ELSE <<>>)
            \o ConvertedConditions(Tail(conditions), table_alias, cte_name)

_parse_connect_by_condition(connect_by, table_alias, cte_name) ==
  LET pl == prior_left(connect_by)
      pr == prior_right(connect_by)
  IN IF connect_by = <<>> THEN <<>>
     ELSE IF pl.found
       THEN JoinText(table_alias, LastSegment(pl.child), cte_name, LastSegment(pl.parent))
     ELSE IF pr.found
       THEN JoinText(table_alias, LastSegment(pr.child), cte_name, LastSegment(pr.parent))
     ELSE IF HasSpacedAnd(connect_by)
       THEN Join(ConvertedConditions(SplitAnd(connect_by), table_alias, cte_name),
                 <<" ", "AND", " ">>)
     ELSE <<>>

(***************************************************************************)
(* Column classification.                                                  *)
(***************************************************************************)
RECURSIVE SplitColumnsFrom(_, _, _, _)
SplitColumnsFrom(s, i, paren_depth, current) ==
  IF i > Len(s) THEN (IF Strip(current) # <<>> THEN <<Strip(current)>> ELSE <<>>)
  ELSE IF s[i] = "(" THEN SplitColumnsFrom(s, i + 1, paren_depth + 1, Append(current, s[i]))
  ELSE IF s[i] = ")" THEN SplitColumnsFrom(s, i + 1, paren_depth - 1, Append(current, s[i]))
  ELSE IF s[i] = "," /\ paren_depth = 0
    THEN <<Strip(current)>> \o SplitColumnsFrom(s, i + 1, paren_depth, <<>>)
  ELSE SplitColumnsFrom(s, i + 1, paren_depth, Append(current, s[i]))

_split_select_columns(select_clause) == SplitColumnsFrom(select_clause, 1, 0, <<>>)

\* re.sub(r'\bLEVEL\b', repl, text, flags=re.IGNORECASE)
RECURSIVE SubLevel(_, _)
SubLevel(s, repl) ==
  IF s = <<>> THEN <<>>
  ELSE (IF Upper(Head(s)) = "LEVEL" THEN repl ELSE <<Head(s)>>) \o SubLevel(Tail(s), repl)

\* (?:AS\s+)?(\w+)\s*$ at token j of col: the alias, "" if no match
AliasAt(col, j) ==
  LET k == SkipWs(col, j + 1)
  IN IF KwAt(col, j, "AS") /\ k > j + 1 /\ k = Len(col) /\ IsWord(col[k]) THEN col[k]
     ELSE IF j = Len(col) /\ IsWord(col[j]) THEN col[j]
     ELSE ""

\* ^\s*<kw>\s+(?:AS\s+)?(\w+)\s*$ on a stripped column: the alias, "" if no match
KeywordAlias(col, kw) ==
  LET j == SkipWs(col, 2)
  IN IF KwAt(col, 1, kw) /\ j > 2 THEN AliasAt(col, j) ELSE ""

\* the tail \s*(?:AS\s+)?(\w+)?\s*$ from token r: <<matches, alias or "">>
AliasTail(col, r) ==
  LET j == SkipWs(col, r)
  IN IF j > Len(col) THEN <<TRUE, "">>
     ELSE IF AliasAt(col, j) # "" THEN <<TRUE, AliasAt(col, j)>>
     ELSE <<FALSE, "">>

\* ^\s*SYS_CONNECT_BY_PATH\s*\(\s*(.+?)\s*,\s*'(.+?)'\s*\)\s*(?:AS\s+)?(\w+)?\s*$
\* with the comma at token c and the closing quote at token q
PathAt(col, c, q) ==
  LET p1 == SkipWs(col, 2)
      e0 == SkipWs(col, p1 + 1)
      e1 == SkipWsBack(col, c - 1)
      q1 == SkipWs(col, c + 1)
      r == SkipWs(col, q + 1)
  IN /\ KwAt(col, 1, "SYS_CONNECT_BY_PATH")
     /\ p1 <= Len(col) /\ col[p1] = "("
     /\ c > e0 /\ c <= Len(col) /\ col[c] = "," /\ e1 >= e0
     /\ q1 < q /\ q1 <= Len(col) /\ col[q1] = "'"
     /\ q > q1 + 1 /\ q <= Len(col) /\ col[q] = "'"
     /\ r <= Len(col) /\ col[r] = ")"
     /\ AliasTail(col, r + 1)[1]

Least(S) == CHOOSE x \in S : \A y \in S : x <= y

\* the groups of the match with the comma at token c and the closing quote at token q
PathGroups(col, c, q) ==
  [found |-> TRUE,
   path_expr |-> Slice(col, SkipWs(col, SkipWs(col, 2) + 1), SkipWsBack(col, c - 1)),
   delimiter |-> Slice(col, SkipWs(col, c + 1) + 1, q - 1),
   alias |-> AliasTail(col, SkipWs(col, q + 1) + 1)[2]]

\* both groups are lazy: the first comma that lets the rest match, then the first quote
PathAmong(col, cs) ==
  IF cs = {} THEN [found |-> FALSE, path_expr |-> <<>>, delimiter |-> <<>>, alias |-> ""]
  ELSE PathGroups(col, Least(cs), Least({q \in 1..Len(col) : PathAt(col, Least(cs), q)}))

path_match(col) ==
  PathAmong(col, {c \in 1..Len(col) : \E q \in 1..Len(col) : PathAt(col, c, q)})

\* ^\s*CONNECT_BY_ROOT\s+(\w+)\s+(?:AS\s+)?(\w+)?\s*$
root_match(col) ==
  LET j == SkipWs(col, 2)
      a == SkipWs(col, j + 1)
      tail == AliasTail(col, a)
  IN IF KwAt(col, 1, "CONNECT_BY_ROOT") /\ j > 2 /\ j <= Len(col) /\ IsWord(col[j])
          /\ a > j + 1 /\ tail[1]
     THEN [found |-> TRUE, root_col |-> col[j], alias |-> tail[2]]
     ELSE [found |-> FALSE, root_col |-> "", alias |-> ""]

\* ^\s*CONNECT_BY_ISLEAF\s*(?:AS\s+)?(\w+)?\s*$
isleaf_match(col) == KwAt(col, 1, "CONNECT_BY_ISLEAF") /\ AliasTail(col, 2)[1]

\* \s+(?:AS\s+)?(\w+)\s*$ searched in a stripped column: the alias and where group(0) starts
alias_match(col) ==
  LET n == Len(col)
      w == SkipWsBack(col, n - 1)
      w2 == SkipWsBack(col, w - 1)
      simple == n >= 2 /\ IsWord(col[n]) /\ IsWs(col[n - 1])
      withAs == simple /\ KwAt(col, w, "AS") /\ w2 < w - 1 /\ w2 >= 0 /\ w >= 2
  IN IF ~simple THEN [found |-> FALSE, alias |-> "", start |-> 0]
     ELSE IF withAs THEN [found |-> TRUE, alias |-> col[n], start |-> w2 + 1]
     ELSE [found |-> TRUE, alias |-> col[n], start |-> w + 1]

\* col.split('.')[-1]
RECURSIVE LastDot(_, _)
LastDot(col, i) == IF i = 0 \/ col[i] = "." THEN i ELSE LastDot(col, i - 1)

AfterLastDot(col) == Slice(col, LastDot(col, Len(col)) + 1, Len(col))

AS(alias) == <<" ", "AS", " ">> \o Tok(alias)

\* f"{cte_name}.{column}"
CteRef(cte_name, column) == <<cte_name, ".">> \o Tok(column)

LevelPlusOne(cte_name, alias) == CteRef(cte_name, alias) \o <<" ", "+", " ", "1">>

HiddenLevel(cte_name) ==
  [anchor |-> <<<<"1">> \o AS("level")>>,
   recursive |-> <<LevelPlusOne(cte_name, "level") \o AS("level")>>,
   output |-> <<<<"level">>>>]

\* lines 555-569: LEVEL, bare or aliased
LevelColumn(cte_name, alias) ==
  [anchor |-> <<<<"1">> \o AS(alias)>>,
   recursive |-> <<LevelPlusOne(cte_name, alias) \o AS(alias)>>,
   output |-> <<<<alias>>>>]

\* lines 571-586
PathColumn(m, table_alias, cte_name) ==
  LET alias == IF m.alias # "" THEN m.alias ELSE "path"
      quoted == <<"'">> \o m.delimiter \o <<"'">>
  IN [anchor |-> << <<"CONCAT", "(">> \o quoted \o <<",", " ", "CAST", "(">> \o m.path_expr
                      \o <<" ", "AS", " ", "STRING", ")", ")">> \o AS(alias) >>,
      recursive |-> << <<"CONCAT", "(">> \o CteRef(cte_name, alias) \o <<",", " ">> \o quoted
                      \o <<",", " ", "CAST", "(">> \o Tok(table_alias) \o <<".">> \o m.path_expr
                      \o <<" ", "AS", " ", "STRING", ")", ")">> \o AS(alias) >>,
      output |-> <<<<alias>>>>]

\* lines 588-602
RootColumn(m, cte_name) ==
  LET alias == IF m.alias # "" THEN m.alias ELSE "root_" \o m.root_col
  IN [anchor |-> <<<<m.root_col>> \o AS(alias)>>,
      recursive |-> <<CteRef(cte_name, alias) \o AS(alias)>>,
      output |-> <<<<alias>>>>]

\* variant: the leaf flag carried through the CTE as a column
IsLeafAsColumn(col) ==
  [anchor |-> <<<<"0">> \o AS("is_leaf")>>, recursive |-> <<<<"0">> \o AS("is_leaf")>>,
   output |-> << <<"--", " ", "CONNECT_BY_ISLEAF", " ", "needs", " ", "manual", " ",
                   "implementation">> \o AS("is_leaf") >>]

\* lines 604-611: nothing in the CTE, a commented placeholder in the outer projection
IsLeafColumn(col) ==
  LET a == KeywordAlias(col, "CONNECT_BY_ISLEAF")
      alias == IF a # "" THEN a ELSE "is_leaf"
  IN [anchor |-> <<>>, recursive |-> <<>>,
      output |-> << <<"--", " ", "CONNECT_BY_ISLEAF", " ", "needs", " ", "manual", " ",
                      "implementation">> \o AS(alias) >>]

\* lines 613-632: an expression with LEVEL in it; n is len(anchor_cols)
LevelExprAliased(m, anchor_col, recursive_col, n) ==
  IF m.found
  THEN [anchor |-> <<anchor_col>>, recursive |-> <<recursive_col>>, output |-> <<<<m.alias>>>>]
  ELSE [anchor |-> <<anchor_col \o AS("level_expr_" \o ToString(n))>>,
        recursive |-> <<recursive_col \o AS("level_expr_" \o ToString(n))>>,
        output |-> <<<<"level_expr_" \o ToString(n)>>>>]

LevelExprColumn(col, cte_name, n) ==
  LevelExprAliased(alias_match(col), SubLevel(col, <<"1">>),
                   SubLevel(col, LevelPlusOne(cte_name, "level")), n)

\* lines 634-650: a regular column
RegularAliased(col, table_alias, m) ==
  IF m.found
  THEN [anchor |-> <<col>>,
        recursive |-> <<Tok(table_alias) \o <<".">> \o Strip(Slice(col, 1, m.start - 1))
                          \o AS(m.alias)>>,
        output |-> <<<<m.alias>>>>]
  ELSE [anchor |-> <<col>>,
        recursive |-> <<Tok(table_alias) \o <<".">> \o Strip(AfterLastDot(col))>>,
        output |-> <<Strip(AfterLastDot(col))>>]

RegularColumn(col, table_alias) == RegularAliased(col, table_alias, alias_match(col))

NoColumns == [anchor |-> <<>>, recursive |-> <<>>, output |-> <<>>]

\* the body of the loop of _build_column_lists, lines 550-650, with the three matches taken
ColumnFor(col, table_alias, cte_name, n, level_alias, path, root) ==
  IF col = <<>> THEN NoColumns
  ELSE IF Len(col) = 1 /\ Upper(col[1]) = "LEVEL" THEN LevelColumn(cte_name, "level")
  ELSE IF level_alias # "" THEN LevelColumn(cte_name, level_alias)
  ELSE IF path.found THEN PathColumn(path, table_alias, cte_name)
  ELSE IF root.found THEN RootColumn(root, cte_name)
  ELSE IF isleaf_match(col) THEN IsLeafColumn(col)
  ELSE IF HasLevel(col) THEN LevelExprColumn(col, cte_name, n)
  ELSE RegularColumn(col, table_alias)

BuildColumn(col, table_alias, cte_name, n) ==
  ColumnFor(col, table_alias, cte_name, n, KeywordAlias(col, "LEVEL"), path_match(col),
            root_match(col))

\* anchor_cols.append / recursive_cols.append / output_cols.append
AppendColumns(acc, c) ==
  [anchor |-> acc.anchor \o c.anchor,
   recursive |-> acc.recursive \o c.recursive,
   output |-> acc.output \o c.output]

RECURSIVE BuildColumns(_, _, _, _)
BuildColumns(columns, table_alias, cte_name, acc) ==
  IF columns = <<>> THEN acc
  ELSE BuildColumns(Tail(columns), table_alias, cte_name,
                    AppendColumns(acc, BuildColumn(Strip(Head(columns)), table_alias, cte_name,
                                                   Len(acc.anchor))))

\* lines 652-661: the hidden level column is added when no selected column mentions LEVEL
WithHiddenLevel(cols, components, hidden) ==
  IF ~(\E i \in 1..Len(cols.anchor) : HasLevel(cols.anchor[i])) /\ components.has_level
  THEN AppendColumns(cols, hidden)
  ELSE cols

\* the three lists before they are joined with ', '
_build_column_lists(components, table_alias, cte_name) ==
  WithHiddenLevel(BuildColumns(_split_select_columns(components.select_clause), table_alias,
                               cte_name, NoColumns),
                  components, HiddenLevel(cte_name))

CommaJoin(cols) == Join(cols, <<",", " ">>)

(***************************************************************************)
(* LEVEL filters of the WHERE clause.                                      *)
(***************************************************************************)
RECURSIVE OpRunEnd(_, _)
OpRunEnd(s, i) == IF i <= Len(s) /\ s[i] \in OpTokens THEN OpRunEnd(s, i + 1) ELSE i

\* \bLEVEL\s*([<>=!]+)\s*(\d+) at token i: <<op start, op end, index of the number>>
LevelComparisonAt(s, i) ==
  LET g == SkipWs(s, i + 1)
      h == OpRunEnd(s, g)
      d == SkipWs(s, h)
  IN IF KwAt(s, i, "LEVEL") /\ h > g /\ d <= Len(s) /\ IsDigits(s[d])
     THEN <<g, h - 1, d>> ELSE <<0, 0, 0>>

\* re.sub(r'\bLEVEL\s*[<>=!]+\s*\d+\s*(?:AND\s*)?', '', where_clause)
RECURSIVE StripLevelComparisons(_, _)
StripLevelComparisons(s, i) ==
  IF i > Len(s) THEN <<>>
  ELSE LET m == LevelComparisonAt(s, i)
           e == SkipWs(s, m[3] + 1)
           end == IF KwAt(s, e, "AND") THEN SkipWs(s, e + 1) ELSE e
       IN IF m[3] = 0 THEN <<s[i]>> \o StripLevelComparisons(s, i + 1)
          ELSE StripLevelComparisons(s, end)

\* re.sub(r'\s+AND\s*$', '', text)
StripTrailingAnd(s) ==
  LET n == SkipWsBack(s, Len(s))
      b == SkipWsBack(s, n - 1)
  IN IF KwAt(s, n, "AND") /\ b < n - 1 THEN Slice(s, 1, b) ELSE s

\* lines 418-425
where_without_level(where_clause) ==
  Strip(StripTrailingAnd(Strip(StripLevelComparisons(where_clause, 1))))

RECURSIVE FirstLevelComparison(_, _)
FirstLevelComparison(s, i) ==
  IF i > Len(s) THEN <<0, 0, 0>>
  ELSE IF LevelComparisonAt(s, i)[3] # 0 THEN LevelComparisonAt(s, i)
  ELSE FirstLevelComparison(s, i + 1)

\* variant: the filter of the last LEVEL comparison of the WHERE clause
ExtractLastLevelFilter(components) ==
  LET w == components.where_clause
      at == {i \in 1..Len(w) : LevelComparisonAt(w, i)[3] # 0}
      m == LevelComparisonAt(w, CHOOSE i \in at : \A j \in at : j <= i)
  IN IF at = {} THEN <<>>
     ELSE <<"level", " ">> \o Slice(w, m[1], m[2]) \o <<" ", w[m[3]]>>

\* f"level {op} {val}", <<>> for None
_extract_level_filter(components) ==
  LET w == components.where_clause
      m == FirstLevelComparison(w, 1)
  IN IF w = <<>> \/ m[3] = 0 THEN <<>>
     ELSE <<"level", " ">> \o Slice(w, m[1], m[2]) \o <<" ", w[m[3]]>>

RECURSIVE _convert_pseudo_columns(_)
_convert_pseudo_columns(clause) ==
  IF clause = <<>> THEN <<>>
  ELSE (IF Upper(Head(clause)) = "LEVEL" THEN <<"level">>
        ELSE IF Upper(Head(clause)) = "CONNECT_BY_ISLEAF" THEN <<"is_leaf">>
        ELSE <<Head(clause)>>) \o _convert_pseudo_columns(Tail(clause))

\* name[0].lower() for the table names of the model
FirstCharLower(name) ==
  CASE name \in {"employees", "emp", "EMP"} -> "e"
    [] name \in {"t", "T"} -> "t"
    [] name \in {"DUAL", "dual", "departments"} -> "d"
    [] name \in {"hr", "HR"} -> "h"

\* table_name.split('.')[-1][0].lower(); name[0] raises IndexError on the empty name
_generate_alias(table_name) ==
  LET name == LastSegment(table_name)
  IN IF name = "" THEN [raised |-> TRUE, alias |-> ""]
     ELSE [raised |-> FALSE, alias |-> FirstCharLower(name)]

(***************************************************************************)
(* CTE assembly.                                                           *)
(***************************************************************************)
\* variant: the name without the counter
UnnumberedCteName(n) == "hierarchy_cte"

CteName(n) == "hierarchy_cte_" \o ToString(n)

Indent == <<" ", " ", " ", " ">>

JoinPlaceholder ==
  <<"1", "=", "0", " ", " ", "--", " ", "TODO", ":", " ", "Fix", " ", "join", " ", "condition">>

JoinWarning == "Could not parse CONNECT BY condition - may need manual review"
SiblingsWarning == "ORDER SIBLINGS BY approximated - may not preserve exact sibling order"
SiblingsNote == "Consider adding path-based ordering for exact sibling order"
PathNote == "SYS_CONNECT_BY_PATH converted to path concatenation in recursive CTE"
RootNote == "CONNECT_BY_ROOT tracked via root_* columns in CTE"
IsLeafNote == "CONNECT_BY_ISLEAF approximated - uses NOT EXISTS subquery"
IsLeafWarning == "CONNECT_BY_ISLEAF may need manual verification"
NoCycleNote == "NOCYCLE ignored - Databricks handles cycles with MAXRECURSION"
SequenceNote == "Converted CONNECT BY LEVEL sequence generator to SEQUENCE function"
NotConnectByWarning == "Not a CONNECT BY query"
ParseFailureWarning == "Failed to parse CONNECT BY query structure"
IndexErrorWarning == "Conversion error: string index out of range"

\* lines 412-428
AnchorWhere(components) ==
  LET anchor_where == IF components.start_with_clause # <<>>
                      THEN components.start_with_clause ELSE <<"1", "=", "1">>
      rest == where_without_level(components.where_clause)
  IN IF components.where_clause # <<>> /\ rest # <<>> /\ ~(Len(rest) = 1 /\ Upper(rest[1]) = "AND")
     THEN <<"(">> \o anchor_where \o <<")", " ", "AND", " ", "(">> \o rest \o <<")">>
     ELSE anchor_where

\* lines 431-445
CteText(cte_name, anchor_columns, recursive_columns, output_columns, table_name, table_alias, anchor_where, join_condition) ==
  <<"WITH", " ", "RECURSIVE", " ", cte_name, " ", "AS", " ", "(", "\n">>
    \o Indent \o <<"--", " ", "Anchor", " ", "member", ":", " ", "root", " ", "nodes", " ",
                   "(", "START", " ", "WITH", " ", "condition", ")", "\n">>
    \o Indent \o <<"SELECT", " ">> \o anchor_columns \o <<"\n">>
    \o Indent \o <<"FROM", " ">> \o table_name \o <<" ", "AS", " ">> \o Tok(table_alias) \o <<"\n">>
    \o Indent \o <<"WHERE", " ">> \o anchor_where \o <<"\n">>
    \o Indent \o <<"\n">>
    \o Indent \o <<"UNION", " ", "ALL", "\n">>
    \o Indent \o <<"\n">>
    \o Indent \o <<"--", " ", "Recursive", " ", "member", ":", " ", "child", " ", "nodes", " ",
                   "(", "CONNECT", " ", "BY", " ", "condition", ")", "\n">>
    \o Indent \o <<"SELECT", " ">> \o recursive_columns \o <<"\n">>
    \o Indent \o <<"FROM", " ">> \o table_name \o <<" ", "AS", " ">> \o Tok(table_alias) \o <<"\n">>
    \o Indent \o <<"INNER", " ", "JOIN", " ", cte_name, " ", "ON", " ">> \o join_condition
    \o <<"\n", ")", "\n", "SELECT", " ">> \o output_columns
    \o <<"\n", "FROM", " ", cte_name>>

\* lines 447-465: the clauses after FROM <cte_name>
OuterClauses(components) ==
  LET level_filter == _extract_level_filter(components)
  IN (IF level_filter # <<>> THEN <<"\n", "WHERE", " ">> \o level_filter ELSE <<>>)
     \o (IF components.group_by_clause # <<>>
         THEN <<"\n", "GROUP", " ", "BY", " ">> \o _convert_pseudo_columns(components.group_by_clause)
         ELSE <<>>)
     \o (IF components.order_by_clause # <<>>
         THEN <<"\n", "ORDER", " ", "BY", " ">> \o _convert_pseudo_columns(components.order_by_clause)
         ELSE IF components.order_siblings_by # <<>>
         THEN <<"\n", "ORDER", " ", "BY", " ", "level", ",", " ">>
                \o _convert_pseudo_columns(components.order_siblings_by)
         ELSE <<>>)

If(cond, x) == IF cond THEN <<x>> ELSE <<>>

\* variant: a placeholder that joins every row
JoinOrTrue(parsed) == IF parsed = <<>> THEN <<"1", "=", "1">> ELSE parsed

\* lines 399-405: the placeholder stands in for a condition that could not be parsed
JoinOrPlaceholder(parsed) == IF parsed = <<>> THEN JoinPlaceholder ELSE parsed

\* lines 396-476: the text, the warnings and the notes, once alias, join and columns are known
AssembleCte(components, cte_name, table_alias, parsed, cols) ==
  [raised |-> FALSE, error |-> "",
   cte_sql |-> CteText(cte_name, CommaJoin(cols.anchor), CommaJoin(cols.recursive),
                       CommaJoin(cols.output), components.from_clause, table_alias,
                       AnchorWhere(components), JoinOrPlaceholder(parsed))
                 \o OuterClauses(components),
   warnings |-> If(parsed = <<>>, JoinWarning)
                  \o If(components.order_by_clause = <<>> /\ components.order_siblings_by # <<>>,
                        SiblingsWarning)
                  \o If(components.has_connect_by_isleaf, IsLeafWarning),
   notes |-> If(components.order_by_clause = <<>> /\ components.order_siblings_by # <<>>,
                SiblingsNote)
               \o If(components.has_sys_connect_by_path, PathNote)
               \o If(components.has_connect_by_root, RootNote)
               \o If(components.has_connect_by_isleaf, IsLeafNote)
               \o If(components.has_nocycle, NoCycleNote),
   cte_name |-> cte_name, table_alias |-> table_alias, resolved |-> parsed # <<>>,
   join_condition |-> JoinOrPlaceholder(parsed), cols |-> cols]

\* lines 393-394: components.table_alias or self._generate_alias(table_name)
TableAlias(components) ==
  IF components.table_alias # "" THEN [raised |-> FALSE, alias |-> components.table_alias]
  ELSE _generate_alias(components.from_clause)

\* variant: the exception is caught and its text is not kept
BuildWithAliasNoText(components, cte_name, generated) ==
  IF generated.raised
  THEN [raised |-> TRUE, error |-> "Conversion error", cte_sql |-> <<>>, warnings |-> <<>>,
        notes |-> <<>>, cte_name |-> cte_name, table_alias |-> "", resolved |-> FALSE,
        join_condition |-> <<>>, cols |-> NoColumns]
  ELSE AssembleCte(components, cte_name, generated.alias,
                   _parse_connect_by_condition(components.connect_by_clause, generated.alias,
                                               cte_name),
                   _build_column_lists(components, generated.alias, cte_name))

\* an IndexError of _generate_alias leaves _build_recursive_cte before anything is built
BuildWithAlias(components, cte_name, generated) ==
  IF generated.raised
  THEN [raised |-> TRUE, error |-> IndexErrorWarning, cte_sql |-> <<>>, warnings |-> <<>>,
        notes |-> <<>>, cte_name |-> cte_name, table_alias |-> "", resolved |-> FALSE,
        join_condition |-> <<>>, cols |-> NoColumns]
  ELSE AssembleCte(components, cte_name, generated.alias,
                   _parse_connect_by_condition(components.connect_by_clause, generated.alias,
                                               cte_name),
                   _build_column_lists(components, generated.alias, cte_name))

\* the counter is incremented on entry (line 389), before anything can raise
_build_recursive_cte(components, counter) ==
  BuildWithAlias(components, CteName(counter + 1), TableAlias(components))

(***************************************************************************)
(* The sequence generator.                                                 *)
(***************************************************************************)
\* re.sub(r'\bLEVEL\b(?!\s*\()', 'id', select_clause)
RECURSIVE SubLevelNotCall(_, _)
SubLevelNotCall(s, i) ==
  IF i > Len(s) THEN <<>>
  ELSE LET j == SkipWs(s, i + 1)
       IN (IF Upper(s[i]) = "LEVEL" /\ ~(j <= Len(s) /\ s[j] = "(") THEN <<"id">> ELSE <<s[i]>>)
            \o SubLevelNotCall(s, i + 1)

\* variant: the limit taken as the exclusive upper bound
RangeExprInclusive(level_limit) ==
  IF IsDigits(level_limit)
  THEN <<"RANGE", "(", "1", ",", " ", ToString(ParseInt(level_limit)), ")">>
  ELSE <<"RANGE", "(", "1", ",", " ", level_limit, ")">>

\* lines 365-372
RangeExpr(level_limit) ==
  IF IsDigits(level_limit)
  THEN <<"RANGE", "(", "1", ",", " ", ToString(ParseInt(level_limit) + 1), ")">>
  ELSE <<"RANGE", "(", "1", ",", " ", level_limit, " ", "+", " ", "1", ")">>

_convert_sequence_generator(components) ==
  LET level_limit == IF components.level_limit # "" THEN components.level_limit ELSE "10"
  IN <<"SELECT", " ">> \o SubLevelNotCall(components.select_clause, 1)
       \o <<"\n", "FROM", " ">> \o RangeExpr(level_limit)
       \o (IF components.order_by_clause # <<>>
           THEN <<"\n", "ORDER", " ", "BY", " ">> \o SubLevel(components.order_by_clause, <<"id">>)
           ELSE <<>>)

(***************************************************************************)
(* ConnectByConverter.convert: the result, the counter after the call and  *)
(* a record of the stages the call went through.                           *)
(***************************************************************************)
ConversionResult(success, converted_sql, original_sql, warnings, notes) ==
  [success |-> success, converted_sql |-> converted_sql, original_sql |-> original_sql,
   warnings |-> warnings, notes |-> notes]

NoCte ==
  [raised |-> FALSE, error |-> "", cte_sql |-> <<>>, warnings |-> <<>>, notes |-> <<>>,
   cte_name |-> "", table_alias |-> "", resolved |-> FALSE, join_condition |-> <<>>,
   cols |-> NoColumns]

Trace(outcome, stages, components, cte) ==
  [outcome |-> outcome, stages |-> stages, components |-> components, cte |-> cte]

\* variant: the text built so far is returned when assembly raises
AssembledKeepsPartial(s, counter, components, cte) ==
  IF cte.raised
  THEN [result |-> ConversionResult(FALSE, components.select_clause, s, <<cte.error>>, <<>>),
        counter |-> counter + 1,
        trace |-> Trace("exception", <<"detect", "parse", "assemble">>, components, cte)]
  ELSE [result |-> ConversionResult(TRUE, cte.cte_sql, s, cte.warnings, cte.notes),
        counter |-> counter + 1,
        trace |-> Trace("cte", <<"detect", "parse", "assemble">>, components, cte)]

\* lines 141-153: the assembled CTE, or the warning of the exception it raised
Assembled(s, counter, components, cte) ==
  IF cte.raised
  THEN [result |-> ConversionResult(FALSE, s, s, <<cte.error>>, <<>>),
        counter |-> counter + 1,
        trace |-> Trace("exception", <<"detect", "parse", "assemble">>, components, cte)]
  ELSE [result |-> ConversionResult(TRUE, cte.cte_sql, s, cte.warnings, cte.notes),
        counter |-> counter + 1,
        trace |-> Trace("cte", <<"detect", "parse", "assemble">>, components, cte)]

\* lines 116-139: what follows the parse
Parsed(s, counter, components) ==
  IF ~components.ok
  THEN [result |-> ConversionResult(FALSE, s, s, <<ParseFailureWarning>>, <<>>),
        counter |-> counter,
        trace |-> Trace("parse_failure", <<"detect", "parse">>, components, NoCte)]
  ELSE IF components.is_sequence_generator
  THEN [result |-> ConversionResult(TRUE, _convert_sequence_generator(components), s,
                                    <<>>, <<SequenceNote>>),
        counter |-> counter,
        trace |-> Trace("sequence", <<"detect", "parse", "sequence">>, components, NoCte)]
  ELSE Assembled(s, counter, components, _build_recursive_cte(components, counter))

convert(s, counter) ==
  IF ~_is_connect_by_query(s)
  THEN [result |-> ConversionResult(FALSE, s, s, <<NotConnectByWarning>>, <<>>),
        counter |-> counter,
        trace |-> Trace("not_connect_by", <<"detect">>, NoComponents, NoCte)]
  ELSE Parsed(s, counter, _parse_connect_by_query(s))

(***************************************************************************)
(* The statements the converter is called with.  Sp joins pieces with one  *)
(* space; the other whitespace is written out where it matters.            *)
(***************************************************************************)
Sp(parts) == Join(parts, <<" ">>)

Words(ws) == Sp([i \in 1..Len(ws) |-> <<ws[i]>>])

RECURSIVE Repeat(_, _)
Repeat(x, n) == IF n = 0 THEN <<>> ELSE <<x>> \o Repeat(x, n - 1)

PathCall == <<"SYS_CONNECT_BY_PATH", "(", "name", ",", " ", "'", "/", "'", ")">>

ItemPool ==
  {<<"id">>, <<"e", ".", "name">>, Words(<<"name", "AS", "n">>), Words(<<"salary", "*", "12">>),
   <<"e", ".", "name", " ", "AS", " ", "n">>,
   <<"UPPER", "(", "name", ")">>, <<"job_level">>,
   <<"LEVEL">>, <<"level">>, Words(<<"LEVEL", "AS", "depth">>), <<"LEVEL", "*", "10">>,
   Words(<<"LEVEL", "*", "10">>), <<"LEVEL", "*", "10", " ", "AS", " ", "x">>,
   <<"LEVEL", "-", "1", " ", "AS", " ", "y">>, <<"2", "*", "LEVEL", "+", "1", " ", "AS", " ", "z">>,
   PathCall, PathCall \o <<" ", "AS", " ", "p">>,
   Words(<<"CONNECT_BY_ROOT", "id">>), Words(<<"CONNECT_BY_ROOT", "id", "AS", "r">>),
   Words(<<"CONNECT_BY_ROOT", "id", "r">>),
   <<"CONNECT_BY_ISLEAF">>, Words(<<"CONNECT_BY_ISLEAF", "AS", "leaf">>)}

SecondPool ==
  {<<>>, <<"LEVEL">>, Words(<<"name", "AS", "n">>), Words(<<"CONNECT_BY_ROOT", "id", "AS", "r">>),
   <<"CONNECT_BY_ISLEAF">>}

\* pad plain columns, one item of the pool, and possibly a second item
SelectLists ==
  {CommaJoin(Repeat(<<"id">>, k) \o <<item>> \o (IF second = <<>> THEN <<>> ELSE <<second>>)) :
     k \in 0..MaxPad, item \in ItemPool, second \in SecondPool}

StartWithNull == Words(<<"START", "WITH", "mgr", "IS", "NULL">>)

ConnectBy(pred) == Words(<<"CONNECT", "BY">>) \o <<" ">> \o pred

PriorIdMgr == Words(<<"PRIOR", "id", "=", "mgr">>)

SelectFamily ==
  {Sp(<<<<"SELECT">>, list, Words(<<"FROM", "emp">>)>> \o where
        \o <<StartWithNull, ConnectBy(PriorIdMgr)>>) :
     list \in SelectLists, where \in {<<>>, <<Words(<<"WHERE", "LEVEL", "<=", "3">>)>>}}

Froms ==
  {<<"emp">>, Words(<<"emp", "e">>), Words(<<"emp", "AS", "e">>), <<"hr", ".", "emp">>,
   <<"hr", ".">>}

Predicates ==
  {PriorIdMgr, Words(<<"mgr", "=", "PRIOR", "id">>),
   <<"PRIOR", " ", "e", ".", "id", " ", "=", " ", "e", ".", "mgr">>,
   <<"e", ".", "mgr", " ", "=", " ", "PRIOR", " ", "e", ".", "id">>,
   <<"mgr", "=", "prior", " ", "id">>,
   Words(<<"NOCYCLE", "PRIOR", "id", "=", "mgr">>),
   Words(<<"PRIOR", "id", "=", "mgr", "AND", "PRIOR", "dept", "=", "dept">>),
   Words(<<"PRIOR", "id", "=", "mgr", "AND", "active", "=", "1">>),
   Words(<<"active", "=", "1", "AND", "PRIOR", "id", "=", "mgr">>),
   Words(<<"active", "=", "1", "AND", "x", ">", "2">>),
   <<"PRIOR", " ", "a", ".", "x", " ", "+", " ", "a", ".", "y", " ", "=", " ", "b", ".", "z">>,
   PriorIdMgr \o <<";">>,
   Words(<<"PRIOR", "id", "=", "mgr", "OR", "PRIOR", "x", "=", "y">>)}

JoinFamily ==
  {Sp(<<Words(<<"SELECT", "id", "FROM">>), from>> \o start \o <<ConnectBy(pred)>>) :
     from \in Froms, pred \in Predicates, start \in {<<>>, <<StartWithNull>>}}

Wheres ==
  {<<>>, Words(<<"WHERE", "LEVEL", "<=", "3">>), Words(<<"WHERE", "active", "=", "1">>),
   Words(<<"WHERE", "active", "=", "1", "AND", "LEVEL", "<=", "3">>),
   Words(<<"WHERE", "LEVEL", "<=", "3", "AND", "active", "=", "1">>),
   Words(<<"WHERE", "active", "=", "1", "AND", "LEVEL", "<=", "3", "AND", "dept", "=", "2">>),
   Words(<<"WHERE", "active", "=", "1", "OR", "LEVEL", "<=", "3">>),
   Words(<<"WHERE", "LEVEL", "<=", "3", "OR", "active", "=", "1">>),
   Words(<<"WHERE", "LEVEL", ">=", "2", "AND", "LEVEL", "<=", "3">>),
   Words(<<"WHERE", "active", "=", "1", "AND", "LEVEL", "<", "n_max">>)}

Tails ==
  {<<>>, Words(<<"ORDER", "BY", "name">>), Words(<<"ORDER", "SIBLINGS", "BY", "name">>),
   Words(<<"ORDER", "SIBLINGS", "BY", "name", "ORDER", "BY", "id">>),
   Words(<<"GROUP", "BY", "id">>),
   Words(<<"GROUP", "BY", "id", "HAVING">>) \o <<" ", "COUNT", "(", "*", ")", " ", ">", " ", "1">>}

ClauseFamily ==
  {Sp(<<<<"SELECT">>, list, Words(<<"FROM", "emp", "e">>)>>
        \o (IF where = <<>> THEN <<>> ELSE <<where>>)
        \o <<StartWithNull, ConnectBy(PriorIdMgr)>>
        \o (IF tail = <<>> THEN <<>> ELSE <<tail>>)) :
     list \in {<<"id">>, <<"id", ",", " ", "LEVEL">>}, where \in Wheres, tail \in Tails}

Limits == {ToString(n) : n \in 0..MaxLimit} \cup {"n_max"}

SequenceLists ==
  {<<"LEVEL">>, Words(<<"LEVEL", "AS", "n">>), <<"LEVEL", "*", "2">>, <<"id", ",", " ", "level">>}

SequenceOps == {<<" ", "<=", " ">>, <<"<=">>}

SequenceTails == {<<>>, <<" ">> \o Words(<<"ORDER", "BY", "LEVEL">>)}

SequenceStatement(list, op, limit, tail) ==
  Sp(<<<<"SELECT">>, list, Words(<<"FROM", "DUAL", "CONNECT", "BY">>)>>)
    \o <<" ", "LEVEL">> \o op \o <<limit>> \o tail

SequenceFamily ==
  {SequenceStatement(list, op, limit, tail) :
     list \in SequenceLists, op \in SequenceOps, limit \in Limits, tail \in SequenceTails}

ScenarioA ==
  Words(<<"SELECT", "employee_id">>) \o <<",", " ", "manager_id", ",", " ", "LEVEL", " ">>
    \o Words(<<"FROM", "employees", "START", "WITH", "manager_id", "IS", "NULL", "CONNECT", "BY",
               "PRIOR", "employee_id", "=", "manager_id">>)

ScenarioB ==
  Words(<<"SELECT", "x", "FROM", "t", "a", "CONNECT", "BY", "PRIOR">>)
    \o <<" ", "a", ".", "x", " ", "+", " ", "a", ".", "y", " ", "=", " ", "b", ".", "z">>

ScenarioC(root) ==
  Sp(<<<<"SELECT">>, CommaJoin(<<PathCall, root>>), Words(<<"FROM", "emp">>), StartWithNull,
       ConnectBy(PriorIdMgr)>>)

SpecialInputs ==
  {ScenarioA, ScenarioA \o <<";">>, ScenarioB,
   ScenarioC(Words(<<"CONNECT_BY_ROOT", "id">>)),
   ScenarioC(Words(<<"CONNECT_BY_ROOT", "id", "AS", "r">>)),
   Words(<<"SELECT", "id", "FROM", "emp">>),
   Words(<<"select", "id", "from", "emp">>),
   Words(<<"SELECT", "CONNECT_BY_ROOT", "id", "FROM", "t">>),
   Words(<<"UPDATE", "t", "SET", "x", "=", "1", "CONNECT", "BY", "y">>),
   Words(<<"SELECT", "id", "FROM", "emp", "CONNECT", "BY">>),
   Words(<<"SELECT", "id", "FROM", "emp", "CONNECT">>) \o <<"\n", "BY", " ">> \o PriorIdMgr,
   Words(<<"SELECT", "id", "FROM", "emp", "START", "WITH", "mgr", "IS", "NULL">>),
   Words(<<"select", "id", "from", "emp", "connect", "by", "prior", "id", "=", "mgr">>),
   Sp(<<Words(<<"SELECT", "id", "FROM", "emp">>), ConnectBy(PriorIdMgr), StartWithNull>>),
   <<"SELECT", "\n", " ", "id", "\n", "FROM", "\t", "emp", "\n">> \o ConnectBy(PriorIdMgr),
   Words(<<"INSERT", "INTO", "t", "SELECT", "LEVEL", "FROM", "DUAL", "CONNECT", "BY", "LEVEL",
           "<=", "3">>),
   Words(<<"FROM", "DUAL", "CONNECT", "BY", "LEVEL", "<=", "3">>),
   Sp(<<<<"SELECT", " ", "CONNECT_BY_ISLEAF", ",", " ", "LEVEL", "*", "10">>,
        Words(<<"FROM", "emp">>), ConnectBy(PriorIdMgr)>>),
   Words(<<"SELECT", "LEVEL", "FROM", "DUAL", "CONNECT", "BY", "NOCYCLE", "LEVEL", "<=", "3">>),
   Words(<<"SELECT", "id", "FROM", "emp", "CONNECT", "BY", "nocycle", "PRIOR", "id", "=",
           "mgr">>),
   Words(<<"SELECT", "id", "FROM", "emp", "CONNECT", "BY", "NOCYCLE", "active", "=", "1">>),
   Sp(<<<<"SELECT", " ", "id", ",", " ", "LEVEL">>,
        Words(<<"FROM", "emp", "e", "WHERE", "LEVEL", "<=", "3">>), StartWithNull,
        ConnectBy(Words(<<"NOCYCLE", "PRIOR", "id", "=", "mgr">>)),
        Words(<<"ORDER", "SIBLINGS", "BY", "name">>)>>),
   Words(<<"WITH", "x", "AS">>) \o <<" ", "(">> \o Words(<<"SELECT", "1", "FROM", "DUAL">>)
     \o <<")", " ">> \o Words(<<"SELECT", "id", "FROM", "emp">>) \o <<" ">>
     \o ConnectBy(PriorIdMgr),
   Sp(<<<<"SELECT", " ", "CONNECT_BY_ROOT", " ", "e", ".", "id", " ", "AS", " ", "r">>,
        Words(<<"FROM", "emp", "e">>), StartWithNull, ConnectBy(PriorIdMgr)>>),
   Words(<<"SELECT", "LEVEL", "FROM", "DUAL", "WHERE", "active", "=", "1", "CONNECT", "BY",
           "LEVEL", "<=", "3">>),
   Words(<<"SELECT", "LEVEL", "FROM", "DUAL", "CONNECT", "BY", "LEVEL", "<=", "3", "AND",
           "active", "=", "1">>),
   Words(<<"SELECT", "LEVEL", "FROM", "DUAL", "CONNECT", "BY", "LEVEL", "<=", "3", "*", "2">>),
   Words(<<"SELECT", "id", "FROM", "emp", "WHERE", "id", "IN">>) \o <<" ", "(">>
     \o Words(<<"SELECT", "1", "FROM", "DUAL">>) \o <<")", " ">>
     \o Words(<<"CONNECT", "BY", "LEVEL", "<=", "3">>)}

Inputs == SelectFamily \cup JoinFamily \cup ClauseFamily \cup SequenceFamily \cup SpecialInputs

(***************************************************************************)
(* One converter instance, called again and again.                         *)
(***************************************************************************)
NoResult == ConversionResult(FALSE, <<>>, <<>>, <<>>, <<>>)

NoTrace == Trace("none", <<>>, NoComponents, NoCte)

NoJoinInput == [a |-> <<>>, b |-> <<>>, eq |-> <<>>, table_alias |-> "", cte_name |-> ""]

NoJoinOutput == [left |-> <<>>, right |-> <<>>, done |-> {}]

Init ==
  /\ cte_counter = 0
  /\ pc = "idle"
  /\ sql = <<>>
  /\ result = NoResult
  /\ trace = NoTrace
  /\ jin = NoJoinInput
  /\ jout = NoJoinOutput
  /\ converters = <<>>
  /\ self = ""
  /\ threads = <<>>

\* converter.convert(s), to its return
Returned(r, s) ==
  /\ result' = r.result
  /\ cte_counter' = r.counter
  /\ trace' = r.trace
  /\ sql' = s
  /\ pc' = "done"

Convert(s) ==
  /\ pc = "idle"
  /\ cte_counter < MaxCalls
  /\ Returned(convert(s, cte_counter), s)
  /\ UNCHANGED <<jin, jout, converters, self, threads>>

Return ==
  /\ pc = "done"
  /\ pc' = "idle"
  /\ sql' = <<>>
  /\ result' = NoResult
  /\ trace' = NoTrace
  /\ UNCHANGED <<cte_counter, jin, jout, converters, self, threads>>

Next == (\E s \in Inputs : Convert(s)) \/ Return

Spec == Init /\ [][Next]_vars

(***************************************************************************)
(* Join inference on its own: one predicate written both ways.             *)
(***************************************************************************)
ColumnRefs ==
  {<<"id">>, <<"mgr">>, <<"e", ".", "id">>, <<"e", ".", "mgr">>,
   <<"hr", ".", "emp", ".", "id">>, <<"employee_id">>}

JoinEquals == {<<" ", "=", " ">>, <<"=">>}

JoinInputs ==
  [a : ColumnRefs, b : ColumnRefs, eq : JoinEquals, table_alias : {"e", "emp"},
   cte_name : {CteName(n) : n \in 1..MaxCalls}]

\* PRIOR a = b
PriorLeftText(a, eq, b) == <<"PRIOR", " ">> \o a \o eq \o b

\* b = PRIOR a
PriorRightText(a, eq, b) == b \o eq \o <<"PRIOR", " ">> \o a

JoinInit ==
  /\ cte_counter = 0
  /\ pc = "join"
  /\ sql = <<>>
  /\ result = NoResult
  /\ trace = NoTrace
  /\ jin \in JoinInputs
  /\ jout = NoJoinOutput
  /\ converters = <<>>
  /\ self = ""
  /\ threads = <<>>

InferLeft ==
  /\ pc = "join"
  /\ "left" \notin jout.done
  /\ jout' = [jout EXCEPT
                !.left = _parse_connect_by_condition(PriorLeftText(jin.a, jin.eq, jin.b),
                                                     jin.table_alias, jin.cte_name),
                !.done = @ \cup {"left"}]
  /\ UNCHANGED <<cte_counter, pc, sql, result, trace, jin, converters, self, threads>>

InferRight ==
  /\ pc = "join"
  /\ "right" \notin jout.done
  /\ jout' = [jout EXCEPT
                !.right = _parse_connect_by_condition(PriorRightText(jin.a, jin.eq, jin.b),
                                                      jin.table_alias, jin.cte_name),
                !.done = @ \cup {"right"}]
  /\ UNCHANGED <<cte_counter, pc, sql, result, trace, jin, converters, self, threads>>

JoinNext == InferLeft \/ InferRight

SpecJoin == JoinInit /\ [][JoinNext]_vars

(***************************************************************************)
(* Several converter instances, each with its own cte_counter.  In this    *)
(* specification cte_counter is self.cte_counter, the counter of the       *)
(* instance that was called; assembled counts the calls of an instance     *)
(* that entered _build_recursive_cte.                                      *)
(***************************************************************************)
Instances == {"c1", "c2"}

InstancesInit ==
  /\ cte_counter = 0
  /\ pc = "idle"
  /\ sql = <<>>
  /\ result = NoResult
  /\ trace = NoTrace
  /\ jin = NoJoinInput
  /\ jout = NoJoinOutput
  /\ converters = [i \in Instances |-> [cte_counter |-> 0, assembled |-> 0]]
  /\ self = ""
  /\ threads = <<>>

\* variant: one counter for all the instances, as a class attribute would be
StoreShared(cs, i, counter, stages) ==
  [j \in DOMAIN cs |->
     [cte_counter |-> counter,
      assembled |-> IF j = i /\ (\E k \in 1..Len(stages) : stages[k] = "assemble")
                    THEN cs[j].assembled + 1 ELSE cs[j].assembled]]

\* self.cte_counter is an attribute of the instance (lines 91 and 389)
StoreCounter(cs, i, counter, stages) ==
  [cs EXCEPT ![i] =
     [cte_counter |-> counter,
      assembled |-> IF \E k \in 1..Len(stages) : stages[k] = "assemble"
                    THEN @.assembled + 1 ELSE @.assembled]]

\* converters[i].convert(s), to its return
ConvertOn(i, s) ==
  /\ pc = "idle"
  /\ converters[i].cte_counter < MaxCalls
  /\ Returned(convert(s, converters[i].cte_counter), s)
  /\ self' = i
  /\ converters' = StoreCounter(converters, i, cte_counter', trace'.stages)
  /\ UNCHANGED <<jin, jout, threads>>

InstancesNext ==
  \/ \E i \in Instances :
       \E s \in SpecialInputs
                  \cup {Words(<<"SELECT", "id", "FROM">>) \o <<" ", "hr", ".", " ">>
                          \o ConnectBy(PriorIdMgr)} :
         ConvertOn(i, s)
  \/ Return

SpecInstances == InstancesInit /\ [][InstancesNext]_vars

(***************************************************************************)
(* Two threads that call convert on one converter instance.  The statement *)
(* self.cte_counter += 1 of line 389 is a read of the attribute, an        *)
(* addition and a write of the attribute, and line 390 reads the attribute *)
(* again to form cte_name; nothing in the class keeps another thread from  *)
(* running between them.  cte_counter is the attribute of the instance;    *)
(* stores counts the writes of a thread, names the CTE names it emitted.   *)
(***************************************************************************)
Threads == {"t1", "t2"}

ThreadInputs ==
  {ScenarioB, SequenceStatement(<<"LEVEL">>, <<" ", "<=", " ">>, "3", <<>>),
   Words(<<"SELECT", "id", "FROM">>) \o <<" ", "hr", ".", " ">> \o ConnectBy(PriorIdMgr)}

NoThread ==
  [pc |-> "idle", sql |-> <<>>, calls |-> 0, loaded |-> 0, stores |-> 0, cte_name |-> "",
   names |-> <<>>, result |-> NoResult]

ThreadsInit ==
  /\ cte_counter = 0
  /\ pc = "threads"
  /\ sql = <<>>
  /\ result = NoResult
  /\ trace = NoTrace
  /\ jin = NoJoinInput
  /\ jout = NoJoinOutput
  /\ converters = <<>>
  /\ self = ""
  /\ threads = [t \in Threads |-> NoThread]

\* lines 93-139: a call that stops before _build_recursive_cte returns at once
Call(t, s) ==
  /\ threads[t].pc = "idle"
  /\ threads[t].calls < MaxThreadCalls
  /\ threads' = [threads EXCEPT ![t] =
       IF _is_connect_by_query(s) /\ _parse_connect_by_query(s).ok
            /\ ~_parse_connect_by_query(s).is_sequence_generator
       THEN [@ EXCEPT !.pc = "enter", !.sql = s, !.calls = @ + 1]
       ELSE [@ EXCEPT !.pc = "done", !.sql = s, !.calls = @ + 1,
                      !.result = convert(s, cte_counter).result]]
  /\ UNCHANGED <<cte_counter, pc, sql, result, trace, jin, jout, converters, self>>

\* line 389, the read of self.cte_counter
LoadCounter(t) ==
  /\ threads[t].pc = "enter"
  /\ threads' = [threads EXCEPT ![t].pc = "loaded", ![t].loaded = cte_counter]
  /\ UNCHANGED <<cte_counter, pc, sql, result, trace, jin, jout, converters, self>>

\* line 389, the write of the value read plus one
IncrementStore(t) ==
  /\ threads[t].pc = "loaded"
  /\ cte_counter' = threads[t].loaded + 1
  /\ threads' = [threads EXCEPT ![t].pc = "stored", ![t].stores = @ + 1]
  /\ UNCHANGED <<pc, sql, result, trace, jin, jout, converters, self>>

\* the call of a thread once its cte_name is formed: lines 393-476 and 141-153
Named(th, cte_name, r) ==
  [th EXCEPT !.pc = "done", !.cte_name = cte_name, !.result = r,
             !.names = IF r.success THEN Append(@, cte_name) ELSE @]

\* line 390, the read of self.cte_counter that forms cte_name, and the rest of the call
FormName(t) ==
  /\ threads[t].pc = "stored"
  /\ threads' = [threads EXCEPT ![t] =
       Named(@, CteName(cte_counter),
             Assembled(threads[t].sql, cte_counter, _parse_connect_by_query(threads[t].sql),
                       BuildWithAlias(_parse_connect_by_query(threads[t].sql),
                                      CteName(cte_counter),
                                      TableAlias(_parse_connect_by_query(threads[t].sql)))).result)]
  /\ UNCHANGED <<cte_counter, pc, sql, result, trace, jin, jout, converters, self>>

\* the caller of the thread takes the result
ReturnThread(t) ==
  /\ threads[t].pc = "done"
  /\ threads' = [threads EXCEPT ![t].pc = "idle", ![t].sql = <<>>, ![t].cte_name = "",
                                ![t].result = NoResult]
  /\ UNCHANGED <<cte_counter, pc, sql, result, trace, jin, jout, converters, self>>

ThreadsNext ==
  \E t \in Threads :
    \/ \E s \in ThreadInputs : Call(t, s)
    \/ LoadCounter(t)
    \/ IncrementStore(t)
    \/ FormName(t)
    \/ ReturnThread(t)

SpecThreads == ThreadsInit /\ [][ThreadsNext]_vars

(***************************************************************************)
(* Vocabulary of the properties.                                           *)
(***************************************************************************)
Range(seq) == {seq[i] : i \in 1..Len(seq)}

IsPrefix(p, text) == Len(p) <= Len(text) /\ SubSeq(text, 1, Len(p)) = p

Occurrences(text, sub) ==
  {i \in 1..(Len(text) - Len(sub) + 1) : SubSeq(text, i, i + Len(sub) - 1) = sub}

ContainsSeq(text, sub) == Occurrences(text, sub) # {}

\* the token sequence CONNECT BY: the two words, in any case, with whitespace between
HasConnectByTokens(s) == \E i \in 1..Len(s) : KwSeqEnd(s, i, <<"CONNECT", "BY">>) # 0

\* one conjunct of the shape PRIOR a = b or b = PRIOR a
IsPriorShape(c) == prior_left(c).found \/ prior_right(c).found

\* the conjuncts of a predicate without parentheses
Conjuncts(cb) == SplitAnd(cb)

SomeConjunctUnrecognised(cb) ==
  \E i \in 1..Len(Conjuncts(cb)) : ~IsPriorShape(Strip(Conjuncts(cb)[i]))

NoConjunctRecognised(cb) ==
  \A i \in 1..Len(Conjuncts(cb)) : ~IsPriorShape(Strip(Conjuncts(cb)[i]))

\* a table name whose last segment is a name
WellFormedTable(table) == table # <<>> /\ IsWord(table[Len(table)])

MentionsManualReview(w) == w \in {JoinWarning}

\* the name a select item gives its column: the alias after AS, an alias that follows a
\* complete operand, the last segment of a column reference, and none for an expression
ColumnName(col) ==
  LET n == Len(col)
      p == SkipWsBack(col, n - 1)
  IN IF n = 0 \/ ~IsWord(col[n]) THEN ""
     ELSE IF n = 1 THEN col[1]
     ELSE IF p >= 1 /\ p < n - 1 /\ Upper(col[p]) = "AS" THEN col[n]
     ELSE IF p >= 1 /\ p < n - 1 /\ (IsWord(col[p]) \/ col[p] \in {")", "'"})
               /\ ~IsDigits(col[n]) THEN col[n]
     ELSE IF col[n - 1] = "." /\ WordRunEnd(col, 1) > n THEN col[n]
     ELSE ""

\* hierarchy_cte_[0-9]+
CteNamePattern == {"hierarchy_cte_" \o ToString(n) : n \in NumeralValues}

\* the parenthesis opened at token i is closed: some later ) has as many ( as ) before it
ClosesParen(text, i) ==
  \E j \in (i + 1)..Len(text) :
    /\ text[j] = ")"
    /\ Cardinality({k \in (i + 1)..(j - 1) : text[k] = "("})
         = Cardinality({k \in (i + 1)..(j - 1) : text[k] = ")"})

\* exactly one WITH RECURSIVE <name> AS (...) block, its name the only CTE name of the text
ExactlyOneCteBlock(text, name) ==
  /\ name \in CteNamePattern
  /\ IsPrefix(<<"WITH", " ", "RECURSIVE", " ", name, " ", "AS", " ", "(">>, text)
  /\ ClosesParen(text, 9)
  /\ Cardinality(Occurrences(text, <<"WITH", " ", "RECURSIVE">>)) = 1
  /\ \A i \in 1..Len(text) : text[i] \in CteNamePattern => text[i] = name

NoCteBlock(text) ==
  /\ ~ContainsSeq(text, <<"RECURSIVE">>)
  /\ \A i \in 1..Len(text) : text[i] \notin CteNamePattern

\* the select lists of the sequence statements with LEVEL renamed
WithId(list) ==
  CASE list = <<"LEVEL">> -> <<"id">>
    [] list = Words(<<"LEVEL", "AS", "n">>) -> Words(<<"id", "AS", "n">>)
    [] list = <<"LEVEL", "*", "2">> -> <<"id", "*", "2">>
    [] list = <<"id", ",", " ", "level">> -> <<"id", ",", " ", "id">>

SelectFromRange(list, upper) ==
  <<"SELECT", " ">> \o WithId(list) \o <<"\n", "FROM", " ", "RANGE", "(", "1", ",", " ">>
    \o upper \o <<")">>

(***************************************************************************)
(* Properties.                                                             *)
(***************************************************************************)

\* C1: whenever convert returns success = false, on each of the three failure paths (not a
\* CONNECT BY query, structure not parsed, exception during assembly), converted_sql is
\* exactly the input; original_sql is the input in every result.
C1_FailurePassesThrough ==
  pc = "done" =>
    /\ result.original_sql = sql
    /\ (~result.success => result.converted_sql = sql)
    /\ (trace.outcome \in {"not_connect_by", "parse_failure", "exception"}
          => ~result.success /\ result.converted_sql = sql)

\* C1, reached: assembly raised on a statement and the statement came back as it was given
C1_ExceptionReturnsInput ==
  /\ pc = "done"
  /\ trace.outcome = "exception"
  /\ ~result.success
  /\ sql # <<>>
  /\ result.converted_sql = sql
  /\ result.warnings = <<IndexErrorWarning>>

C3_ColumnsAligned ==
  (pc = "done" /\ trace.outcome = "cte") =>
    /\ Len(trace.cte.cols.anchor) = Len(trace.cte.cols.recursive)
    /\ \A i \in 1..Len(trace.cte.cols.anchor) :
         ColumnName(trace.cte.cols.anchor[i]) = ColumnName(trace.cte.cols.recursive[i])

\* C3, reached: the arithmetic item salary * 12, unnamed in the anchor, aliased 12 in the
\* recursive member
C3_ArithmeticItemMisaligned ==
  /\ pc = "done"
  /\ trace.outcome = "cte"
  /\ Words(<<"salary", "*", "12">>) \in Range(trace.cte.cols.anchor)
  /\ <<"e", ".", "salary", " ", "*", " ", "AS", " ", "12">> \in Range(trace.cte.cols.recursive)

\* C4: for column references a and b, qualified or not, PRIOR a = b and b = PRIOR a infer the
\* same join: <alias>.<b unqualified> = <cte>.<a unqualified>.
C4_JoinSymmetry ==
  /\ "left" \in jout.done =>
       jout.left = <<jin.table_alias, ".", jin.b[Len(jin.b)], " ", "=", " ",
                     jin.cte_name, ".", jin.a[Len(jin.a)]>>
  /\ "right" \in jout.done =>
       jout.right = <<jin.table_alias, ".", jin.b[Len(jin.b)], " ", "=", " ",
                      jin.cte_name, ".", jin.a[Len(jin.a)]>>
  /\ jout.done = {"left", "right"} => jout.left = jout.right

\* C4, reached: both writings of a predicate over qualified references were inferred
C4_BothSidesInferred ==
  /\ jout.done = {"left", "right"}
  /\ jin.a = <<"hr", ".", "emp", ".", "id">>
  /\ jin.b = <<"e", ".", "mgr">>
  /\ jout.left = <<jin.table_alias, ".", "mgr", " ", "=", " ", jin.cte_name, ".", "id">>
  /\ jout.right = jout.left

\* C5: when one conjunct of the CONNECT BY predicate is of neither shape, the whole predicate
\* is unresolved: the join is the 1=0 placeholder and the review warning is raised.
C5_UnrecognisedConjunctUnresolved ==
  (pc = "done" /\ trace.outcome = "cte"
     /\ SomeConjunctUnrecognised(trace.components.connect_by_clause)) =>
    /\ trace.cte.join_condition = JoinPlaceholder
    /\ ContainsSeq(result.converted_sql, <<"ON", " ", "1", "=", "0">>)
    /\ JoinWarning \in Range(result.warnings)

\* C5, reached: PRIOR id = mgr AND active = 1 gave a join from the first conjunct alone,
\* without a warning
C5_JoinFromRecognisedConjunctOnly ==
  /\ pc = "done"
  /\ trace.outcome = "cte"
  /\ trace.components.connect_by_clause
       = Words(<<"PRIOR", "id", "=", "mgr", "AND", "active", "=", "1">>)
  /\ trace.cte.join_condition
       = <<trace.cte.table_alias, ".", "mgr", " ", "=", " ", trace.cte.cte_name, ".", "id">>
  /\ result.warnings = <<>>

C7_ScenarioAWithSemicolon ==
  (pc = "done" /\ sql = ScenarioA \o <<";">>) =>
    /\ result.success
    /\ IsPrefix(<<"WITH", " ", "RECURSIVE", " ", CteName(cte_counter)>>, result.converted_sql)
    /\ ContainsSeq(result.converted_sql,
                   <<"SELECT", " ", "employee_id", ",", " ", "manager_id", ",", " ",
                     "1", " ", "AS", " ", "level", "\n">>)
    /\ ContainsSeq(result.converted_sql, Words(<<"WHERE", "manager_id", "IS", "NULL">>))
    /\ \E q \in {"employees", trace.cte.table_alias} :
         ContainsSeq(result.converted_sql,
                     <<"ON", " ", q, ".", "manager_id", " ", "=", " ",
                       CteName(cte_counter), ".", "employee_id">>)
    /\ ContainsSeq(result.converted_sql,
                   <<CteName(cte_counter), ".", "level", " ", "+", " ", "1", " ", "AS", " ",
                     "level">>)
    /\ ContainsSeq(result.converted_sql,
                   <<"SELECT", " ", "employee_id", ",", " ", "manager_id", ",", " ", "level",
                     "\n", "FROM", " ", CteName(cte_counter)>>)

\* C7, reached: scenario A with its semicolon was converted with the placeholder join
C7_SemicolonBreaksJoin ==
  /\ pc = "done"
  /\ sql = ScenarioA \o <<";">>
  /\ result.success
  /\ trace.components.connect_by_clause
       = Words(<<"PRIOR", "employee_id", "=", "manager_id">>) \o <<";">>
  /\ trace.cte.join_condition = JoinPlaceholder

\* C8: scenario C: with SYS_CONNECT_BY_PATH(name, '/') and CONNECT_BY_ROOT id in the select
\* list (the root aliased r, or unaliased with the default alias root_id), the anchor has
\* id AS <alias> and the recursive member <cte>.<alias> AS <alias>; the path is
\* CONCAT('/', CAST(name ...)) in the anchor and
\* CONCAT(<cte>.path, '/', CAST(<table alias>.name ...)) in the recursive member.
C8_PathAndRoot ==
  pc = "done" =>
    \A c \in {[root |-> Words(<<"CONNECT_BY_ROOT", "id">>), alias |-> "root_id"],
              [root |-> Words(<<"CONNECT_BY_ROOT", "id", "AS", "r">>), alias |-> "r"]} :
      sql = ScenarioC(c.root) =>
        /\ result.success
        /\ trace.cte.cols.anchor
             = << <<"CONCAT", "(", "'", "/", "'", ",", " ", "CAST", "(", "name", " ", "AS",
                    " ", "STRING", ")", ")", " ", "AS", " ", "path">>,
                  <<"id", " ", "AS", " ", c.alias>> >>
        /\ trace.cte.cols.recursive
             = << <<"CONCAT", "(", CteName(cte_counter), ".", "path", ",", " ", "'", "/", "'",
                    ",", " ", "CAST", "(", trace.cte.table_alias, ".", "name", " ", "AS", " ",
                    "STRING", ")", ")", " ", "AS", " ", "path">>,
                  <<CteName(cte_counter), ".", c.alias, " ", "AS", " ", c.alias>> >>
        /\ ContainsSeq(result.converted_sql, CommaJoin(trace.cte.cols.anchor))
        /\ ContainsSeq(result.converted_sql, CommaJoin(trace.cte.cols.recursive))

\* C8, reached: the unaliased root was taken for a plain column
C8_UnaliasedRootIsPlain ==
  /\ pc = "done"
  /\ sql = ScenarioC(Words(<<"CONNECT_BY_ROOT", "id">>))
  /\ result.success
  /\ trace.cte.cols.anchor[2] = Words(<<"CONNECT_BY_ROOT", "id">>)
  /\ trace.cte.cols.recursive[2]
       = <<trace.cte.table_alias, ".", "CONNECT_BY_ROOT", " ", "AS", " ", "id">>

C10_EverySuccessHasOneCteBlock ==
  (pc = "done" /\ result.success) =>
    \E name \in CteNamePattern : ExactlyOneCteBlock(result.converted_sql, name)

\* C10, amended: every successful result of recursive-CTE assembly holds exactly one
\* WITH RECURSIVE <name> AS (...) block, <name> being hierarchy_cte_<counter> and the only
\* CTE name of the statement; a successful sequence-generator result holds no such block
\* and no CTE name.
C10_AssembledHasOneCteBlock ==
  (pc = "done" /\ result.success) =>
    \/ /\ trace.outcome = "cte"
       /\ ExactlyOneCteBlock(result.converted_sql, CteName(cte_counter))
    \/ /\ trace.outcome = "sequence"
       /\ NoCteBlock(result.converted_sql)

\* C10, reached: the second assembly of an instance emitted its block as hierarchy_cte_2
C10_SecondCteBlock ==
  /\ pc = "done"
  /\ result.success
  /\ trace.outcome = "cte"
  /\ cte_counter = 2
  /\ IsPrefix(<<"WITH", " ", "RECURSIVE", " ", "hierarchy_cte_2", " ", "AS", " ", "(">>,
              result.converted_sql)

\* C11: convert never raises: every call returns a result.  The one internal failure a
\* statement can cause (the IndexError of an empty last segment of the table name, during
\* CTE assembly) is turned into success = false with the text unchanged and the exception
\* text in the only warning; clause parsing and the sequence generator fail on no statement.
C11_NeverRaises ==
  /\ pc \in {"idle", "done"}
  /\ pc = "done" =>
       /\ trace.outcome \in {"not_connect_by", "parse_failure", "sequence", "exception", "cte"}
       /\ result.original_sql = sql
       /\ trace.outcome = "exception" <=>
            /\ trace.components.ok
            /\ ~trace.components.is_sequence_generator
            /\ trace.components.table_alias = ""
            /\ ~WellFormedTable(trace.components.from_clause)
       /\ trace.outcome = "exception" =>
            /\ ~result.success
            /\ result.converted_sql = sql
            /\ result.warnings = <<"Conversion error: string index out of range">>
            /\ result.notes = <<>>
       /\ trace.outcome \in {"sequence", "cte"} <=> result.success

\* C11, reached: FROM hr. made the alias generator raise on the second call of an instance
C11_IndexErrorCaught ==
  /\ pc = "done"
  /\ cte_counter = 2
  /\ trace.outcome = "exception"
  /\ trace.components.from_clause = <<"hr", ".">>
  /\ ~result.success
  /\ result.warnings = <<IndexErrorWarning>>

\* the leading SELECT ... FROM <table> of a statement can be isolated
LeadingSelectFrom(s) ==
  SelectMatch(Normalize(s), <<>>).found /\ from_pattern(Normalize(s)).found

\* C12: every input that contains CONNECT BY but whose leading SELECT ... FROM <table> cannot
\* be isolated (it does not start with SELECT, say) comes back with success = false and the
\* text unchanged, never as a successful rewrite.
C12_UnisolatedSelectFails ==
  (pc = "done" /\ HasConnectByTokens(sql) /\ ~LeadingSelectFrom(sql)) =>
    /\ ~result.success
    /\ result.converted_sql = sql

\* C12, reached: INSERT INTO t SELECT LEVEL FROM DUAL CONNECT BY LEVEL <= 3 was taken for a
\* sequence generator and rewritten, with success, to a statement without the INSERT
C12_InsertRewrittenWithoutInsert ==
  /\ pc = "done"
  /\ sql = Words(<<"INSERT", "INTO", "t", "SELECT", "LEVEL", "FROM", "DUAL", "CONNECT", "BY",
                   "LEVEL", "<=", "3">>)
  /\ ~LeadingSelectFrom(sql)
  /\ trace.outcome = "sequence"
  /\ result.success
  /\ result.converted_sql
       = <<"SELECT", " ", "id", "\n", "FROM", " ", "RANGE", "(", "1", ",", " ", "4", ")">>

\* C13: on every converter instance cte_counter never decreases and equals the number of
\* calls of that instance that reached CTE assembly, so the k-th such call emits the name
\* hierarchy_cte_k; a call on one instance leaves the counter of every other instance as
\* it was.
C13_CounterPerInstance ==
  /\ [](\A i \in Instances : converters[i].cte_counter = converters[i].assembled)
  /\ []((pc = "done" /\ trace.outcome = "cte") =>
          /\ trace.cte.cte_name = CteName(converters[self].assembled)
          /\ IsPrefix(<<"WITH", " ", "RECURSIVE", " ", CteName(converters[self].assembled)>>,
                      result.converted_sql))
  /\ [][\A i \in Instances :
          /\ converters'[i].cte_counter >= converters[i].cte_counter
          /\ (pc = "idle" /\ i # self') => converters'[i] = converters[i]]_vars

\* C13, reached: after two assemblies on c1, the first assembly on c2 emitted hierarchy_cte_1
C13_SecondInstanceStartsAtOne ==
  /\ pc = "done"
  /\ self = "c2"
  /\ trace.outcome = "cte"
  /\ converters["c1"].cte_counter = 2
  /\ converters["c2"].cte_counter = 1
  /\ IsPrefix(<<"WITH", " ", "RECURSIVE", " ", "hierarchy_cte_1", " ">>, result.converted_sql)

IsSuffix(p, text) ==
  Len(p) <= Len(text) /\ SubSeq(text, Len(text) - Len(p) + 1, Len(text)) = p

\* the statement has an ORDER SIBLINGS BY clause
HasOrderSiblings(s) == \E i \in 1..Len(s) : KwSeqEnd(s, i, <<"ORDER", "SIBLINGS", "BY">>) # 0

\* C14: whenever the statement has an ORDER SIBLINGS BY clause and conversion succeeds, the
\* output ends with ORDER BY level, <sibling columns> and the result carries the warning and
\* the note of the approximation, also when the statement has a plain ORDER BY as well.
C14_SiblingsApproximated ==
  (pc = "done" /\ result.success /\ HasOrderSiblings(sql)) =>
    /\ trace.components.order_siblings_by # <<>>
    /\ IsSuffix(<<"\n", "ORDER", " ", "BY", " ", "level", ",", " ">>
                  \o _convert_pseudo_columns(trace.components.order_siblings_by),
                result.converted_sql)
    /\ SiblingsWarning \in Range(result.warnings)
    /\ SiblingsNote \in Range(result.notes)

\* C14, reached: ORDER SIBLINGS BY name ORDER BY id was converted to ORDER BY id alone, with
\* neither the warning nor the note
C14_PlainOrderByWins ==
  /\ pc = "done"
  /\ result.success
  /\ trace.components.order_siblings_by = <<"name">>
  /\ trace.components.order_by_clause = <<"id">>
  /\ IsSuffix(<<"FROM", " ", CteName(cte_counter), "\n", "ORDER", " ", "BY", " ", "id">>,
              result.converted_sql)
  /\ SiblingsWarning \notin Range(result.warnings)
  /\ SiblingsNote \notin Range(result.notes)

\* CONNECT BY NOCYCLE in the statement: the index after NOCYCLE, 0 if there is none
NocycleEnd(s) ==
  LET at == {i \in 1..Len(s) : KwSeqEnd(s, i, <<"CONNECT", "BY", "NOCYCLE">>) # 0}
  IN IF at = {} THEN 0
     ELSE KwSeqEnd(s, CHOOSE i \in at : \A j \in at : i <= j, <<"CONNECT", "BY", "NOCYCLE">>)

\* the statement with CONNECT BY NOCYCLE <pred> written CONNECT BY <pred>
WithoutNocycle(s) ==
  Slice(s, 1, NocycleEnd(s) - 2) \o Slice(s, SkipWs(s, NocycleEnd(s)), Len(s))

\* C15: for every statement with CONNECT BY NOCYCLE <pred>, the converted SQL, success and
\* the warnings are those of the statement with CONNECT BY <pred>, and the notes are the
\* same with one more note, that NOCYCLE was ignored.
C15_NocycleOnlyAddsNote ==
  (pc = "done" /\ NocycleEnd(sql) # 0) =>
    LET before == IF "assemble" \in Range(trace.stages) THEN cte_counter - 1 ELSE cte_counter
        plain == convert(WithoutNocycle(sql), before).result
    IN /\ result.success = plain.success
       /\ result.success =>
            /\ result.converted_sql = plain.converted_sql
            /\ result.warnings = plain.warnings
            /\ result.notes = plain.notes \o <<NoCycleNote>>

\* C15, reached: SELECT LEVEL FROM DUAL CONNECT BY NOCYCLE LEVEL <= 3 went to CTE assembly
\* and got the placeholder join, where the statement without NOCYCLE is a sequence generator
C15_NocycleSequenceAssembled ==
  /\ pc = "done"
  /\ sql = Words(<<"SELECT", "LEVEL", "FROM", "DUAL", "CONNECT", "BY", "NOCYCLE", "LEVEL",
                   "<=", "3">>)
  /\ WithoutNocycle(sql) = SequenceStatement(<<"LEVEL">>, <<" ", "<=", " ">>, "3", <<>>)
  /\ trace.outcome = "cte"
  /\ trace.components.has_nocycle
  /\ trace.cte.join_condition = JoinPlaceholder
  /\ result.warnings = <<JoinWarning>>

Connective(t) == Upper(t) \in {"AND", "OR"}

\* token k of a WHERE text lies in a comparison LEVEL <op> <int>
InLevelComparison(w, k) ==
  \E i \in 1..k : LevelComparisonAt(w, i)[3] # 0 /\ k <= LevelComparisonAt(w, i)[3]

HasLevelComparison(w) == \E i \in 1..Len(w) : LevelComparisonAt(w, i)[3] # 0

\* nothing but LEVEL comparisons and their connectives
OnlyLevelComparisons(w) ==
  \A k \in 1..Len(w) : IsWs(w[k]) \/ Connective(w[k]) \/ InLevelComparison(w, k)

\* a predicate that starts or ends with AND/OR, or has two of them in a row
DanglingConnective(w) ==
  \/ w # <<>> /\ (Connective(w[1]) \/ Connective(w[Len(w)]))
  \/ \E i \in 1..Len(w) : Connective(w[i]) /\ SkipWs(w, i + 1) <= Len(w)
                            /\ Connective(w[SkipWs(w, i + 1)])

\* the WHERE of the anchor member, read from the converted text
AnchorWhereLine(text) ==
  LET at == Occurrences(text, <<"\n">> \o Indent \o <<"WHERE", " ">>)
      b == (CHOOSE i \in at : \A j \in at : i <= j) + 7
      ends == {k \in b..Len(text) : text[k] = "\n"}
  IN IF at = {} THEN <<>> ELSE Slice(text, b, (CHOOSE k \in ends : \A j \in ends : k <= j) - 1)

StartWithOrTrue(components) ==
  IF components.start_with_clause # <<>> THEN components.start_with_clause ELSE <<"1", "=", "1">>

\* C16: the anchor WHERE is the START WITH text (1=1 without START WITH) conjoined with the
\* source WHERE without its LEVEL <op> <int> conjuncts: what remains is a predicate with no
\* LEVEL comparison and no dangling AND/OR, wherever the LEVEL conjunct stood and whether it
\* was joined with AND or OR; when nothing remains, the anchor WHERE is the START WITH
\* condition alone.
C16_AnchorWhere ==
  (pc = "done" /\ trace.outcome = "cte") =>
    LET anchor == AnchorWhereLine(result.converted_sql)
        start == StartWithOrTrue(trace.components)
        where == trace.components.where_clause
        head == <<"(">> \o start \o <<")", " ", "AND", " ", "(">>
        rest == Slice(anchor, Len(head) + 1, Len(anchor) - 1)
    IN IF OnlyLevelComparisons(where)
       THEN anchor = start
       ELSE /\ anchor = head \o rest \o <<")">>
            /\ rest # <<>>
            /\ ~HasLevelComparison(rest)
            /\ ~DanglingConnective(rest)
            /\ \A k \in 1..Len(where) :
                 (IsWord(where[k]) /\ ~Connective(where[k]) /\ ~InLevelComparison(where, k))
                   => where[k] \in Range(rest)

\* C16, reached: WHERE active = 1 OR LEVEL <= 3 left the anchor with
\* (mgr IS NULL) AND (active = 1 OR)
C16_DanglingOr ==
  /\ pc = "done"
  /\ trace.outcome = "cte"
  /\ trace.components.where_clause = Words(<<"active", "=", "1", "OR", "LEVEL", "<=", "3">>)
  /\ AnchorWhereLine(result.converted_sql)
       = <<"(">> \o Words(<<"mgr", "IS", "NULL">>) \o <<")", " ", "AND", " ", "(">>
           \o Words(<<"active", "=", "1", "OR">>) \o <<")">>

\* the WHERE of the outer query, read from the converted text; <<>> if there is none
OuterWhereLine(text) ==
  LET at == Occurrences(text, <<"\n", "WHERE", " ">>)
      b == (CHOOSE i \in at : \A j \in at : i <= j) + 3
      ends == {k \in b..Len(text) : text[k] = "\n"} \cup {Len(text) + 1}
  IN IF at = {} THEN <<>> ELSE Slice(text, b, (CHOOSE k \in ends : \A j \in ends : k <= j) - 1)

\* level <op> <int> for the first comparison LEVEL <op> <int> of a WHERE text
FirstLevelFilter(w) ==
  LET at == {i \in 1..Len(w) : LevelComparisonAt(w, i)[3] # 0}
      m == LevelComparisonAt(w, CHOOSE i \in at : \A j \in at : i <= j)
  IN <<"level", " ">> \o Slice(w, m[1], m[2]) \o <<" ", w[m[3]]>>

\* C17: the outer query has a WHERE clause iff the source WHERE holds a comparison
\* LEVEL <op> <int>; the clause is exactly level <op> <int> for the first such comparison
\* and stands right after FROM <cte>; the other LEVEL comparisons are in neither the outer
\* WHERE nor the anchor WHERE.
C17_OuterLevelFilter ==
  (pc = "done" /\ trace.outcome = "cte") =>
    LET where == trace.components.where_clause
        outer == OuterWhereLine(result.converted_sql)
    IN /\ Cardinality(Occurrences(result.converted_sql, <<"\n", "WHERE", " ">>))
            = IF HasLevelComparison(where) THEN 1 ELSE 0
       /\ HasLevelComparison(where) =>
            /\ outer = FirstLevelFilter(where)
            /\ ContainsSeq(result.converted_sql,
                           <<"\n", "FROM", " ", CteName(cte_counter), "\n", "WHERE", " ">>
                             \o outer)
            /\ ~HasLevelComparison(AnchorWhereLine(result.converted_sql))
       /\ Cardinality(Occurrences(result.converted_sql, <<"WHERE">>))
            = IF HasLevelComparison(where) THEN 2 ELSE 1

\* C17, reached: WHERE LEVEL >= 2 AND LEVEL <= 3 gave the outer WHERE level >= 2 and an
\* anchor WHERE without either comparison
C17_SecondComparisonDropped ==
  /\ pc = "done"
  /\ trace.outcome = "cte"
  /\ trace.components.where_clause = Words(<<"LEVEL", ">=", "2", "AND", "LEVEL", "<=", "3">>)
  /\ OuterWhereLine(result.converted_sql) = Words(<<"level", ">=", "2">>)
  /\ AnchorWhereLine(result.converted_sql) = Words(<<"mgr", "IS", "NULL">>)
  /\ ~ContainsSeq(result.converted_sql, Words(<<"<=", "3">>))

\* a select item that is LEVEL, bare or aliased
BareLevel(col) ==
  (Len(col) = 1 /\ Upper(col[1]) = "LEVEL") \/ KeywordAlias(col, "LEVEL") # ""

NoBareLevel(select_clause) ==
  \A i \in 1..Len(_split_select_columns(select_clause)) :
    ~BareLevel(_split_select_columns(select_clause)[i])

\* C18: when no select item is LEVEL, bare or aliased, and has_level is true because LEVEL
\* is used elsewhere in the statement, the hidden column level is appended to the three
\* lists (1 AS level, <cte>.level + 1 AS level, level), whatever the names and aliases of
\* the other columns.
C18_HiddenLevelAppended ==
  (pc = "done" /\ trace.outcome = "cte" /\ trace.components.has_level
     /\ NoBareLevel(trace.components.select_clause)) =>
    LET cols == trace.cte.cols
    IN /\ cols.anchor # <<>>
       /\ cols.anchor[Len(cols.anchor)] = <<"1", " ", "AS", " ", "level">>
       /\ cols.recursive[Len(cols.recursive)]
            = <<CteName(cte_counter), ".", "level", " ", "+", " ", "1", " ", "AS", " ", "level">>
       /\ cols.output[Len(cols.output)] = <<"level">>
       /\ ContainsSeq(result.converted_sql, <<",", " ", "level", "\n", "FROM">>)

\* C18, reached: SELECT job_level ... WHERE LEVEL <= 3 was converted without the hidden
\* column, its outer query filtering on a level that no list holds
C18_NoHiddenLevelBesideJobLevel ==
  /\ pc = "done"
  /\ trace.outcome = "cte"
  /\ trace.components.select_clause = <<"job_level">>
  /\ trace.components.has_level
  /\ trace.cte.cols = [anchor |-> <<Words(<<"job_level", "AS", "level_expr_0">>)>>,
                       recursive |-> <<Words(<<"job_level", "AS", "level_expr_0">>)>>,
                       output |-> <<<<"level_expr_0">>>>]
  /\ OuterWhereLine(result.converted_sql) = Words(<<"level", "<=", "3">>)

\* a select item of rule 5: LEVEL is a term of it and no earlier rule takes it
IsLevelExpr(col) ==
  /\ \E k \in 1..Len(col) : Upper(col[k]) = "LEVEL"
  /\ ~BareLevel(col)
  /\ ~path_match(col).found
  /\ ~root_match(col).found
  /\ ~isleaf_match(col)

\* the place of item i of the select list in the anchor and recursive lists, which hold
\* nothing for a CONNECT_BY_ISLEAF item
ColumnIndex(items, i) == i - Cardinality({k \in 1..(i - 1) : isleaf_match(items[k])})

\* C19: for a select item with LEVEL as a sub-term, the anchor form is the item with every
\* LEVEL replaced by 1, the recursive form the item with every LEVEL replaced by
\* <cte>.level + 1, both with the same alias; an item without an explicit alias gets the
\* alias level_expr_<position>, its position in the select list counted from 0.
C19_LevelExpression ==
  (pc = "done" /\ trace.outcome = "cte") =>
    LET items == _split_select_columns(trace.components.select_clause)
        cols == trace.cte.cols
        plus == <<CteName(cte_counter), ".", "level", " ", "+", " ", "1">>
    IN \A i \in 1..Len(items) :
         IsLevelExpr(items[i]) =>
           LET j == ColumnIndex(items, i)
               synthetic == "level_expr_" \o ToString(i - 1)
           IN /\ j <= Len(cols.anchor)
              /\ IF ColumnName(items[i]) # ""
                 THEN /\ cols.anchor[j] = SubLevel(items[i], <<"1">>)
                      /\ cols.recursive[j] = SubLevel(items[i], plus)
                      /\ cols.output[i] = <<ColumnName(items[i])>>
                 ELSE /\ cols.anchor[j] = SubLevel(items[i], <<"1">>) \o AS(synthetic)
                      /\ cols.recursive[j] = SubLevel(items[i], plus) \o AS(synthetic)
                      /\ cols.output[i] = <<synthetic>>

\* C19, reached: the unaliased item LEVEL * 10 went into the lists without an alias, the
\* outer query selecting 10
C19_NumberTakenForAlias ==
  /\ pc = "done"
  /\ trace.outcome = "cte"
  /\ trace.components.select_clause = Words(<<"LEVEL", "*", "10">>)
  /\ trace.cte.cols.anchor[1] = Words(<<"1", "*", "10">>)
  /\ trace.cte.cols.recursive[1]
       = <<CteName(cte_counter), ".", "level", " ", "+", " ", "1", " ", "*", " ", "10">>
  /\ trace.cte.cols.output[1] = <<"10">>

\* the commented placeholder of a CONNECT_BY_ISLEAF item
IsLeafPlaceholder(alias) ==
  Words(<<"--", "CONNECT_BY_ISLEAF", "needs", "manual", "implementation", "AS", alias>>)

IsPlain(col) ==
  /\ col # <<>>
  /\ ~HasLevel(col)
  /\ ~HasConnectByUnderscore(col)

\* the tokens of a select item that name a column: a word that is not a number, not AS, not
\* a function name, not a qualifier, and not the alias the item ends with
ColumnWords(col) ==
  {k \in 1..Len(col) :
     /\ IsWord(col[k])
     /\ ~IsDigits(col[k])
     /\ Upper(col[k]) # "AS"
     /\ ~(k < Len(col) /\ col[k + 1] \in {"(", "."})
     /\ ~(k = Len(col) /\ k > 1 /\ IsWs(col[k - 1]))}

\* the column at token k is written <alias>.<column>, with no qualifier before the alias
QualifiedOnce(col, k, alias) ==
  /\ k >= 3
  /\ col[k - 1] = "."
  /\ col[k - 2] = alias
  /\ ~(k >= 4 /\ col[k - 3] = ".")

\* C21: for every plain select item (bare, qualified, aliased, qualified and aliased, a
\* function call) the anchor form is the item verbatim, and the recursive form names the same
\* columns, each with exactly one qualifier, the table alias, and keeps the alias of the item.
C21_PlainRequalified ==
  (pc = "done" /\ trace.outcome = "cte") =>
    LET items == _split_select_columns(trace.components.select_clause)
        cols == trace.cte.cols
    IN \A i \in 1..Len(items) :
         IsPlain(items[i]) =>
           LET j == ColumnIndex(items, i)
           IN /\ j <= Len(cols.anchor)
              /\ cols.anchor[j] = items[i]
              /\ ColumnName(cols.recursive[j]) = ColumnName(items[i])
              /\ {cols.recursive[j][k] : k \in ColumnWords(cols.recursive[j])}
                   = {items[i][k] : k \in ColumnWords(items[i])}
              /\ \A k \in ColumnWords(cols.recursive[j]) :
                   QualifiedOnce(cols.recursive[j], k, trace.cte.table_alias)

\* C21, reached: the item e.name AS n got a second qualifier in the recursive member, where
\* name AS n got one
C21_QualifierDoubled ==
  /\ pc = "done"
  /\ trace.outcome = "cte"
  /\ trace.cte.table_alias = "e"
  /\ trace.components.select_clause
       = <<"e", ".", "name", " ", "AS", " ", "n", ",", " ", "name", " ", "AS", " ", "n">>
  /\ trace.cte.cols.anchor[1] = <<"e", ".", "name", " ", "AS", " ", "n">>
  /\ trace.cte.cols.recursive[1] = <<"e", ".", "e", ".", "name", " ", "AS", " ", "n">>
  /\ trace.cte.cols.recursive[2] = <<"e", ".", "name", " ", "AS", " ", "n">>

\* C22: two statements that differ only in the whitespace between their tokens get the same
\* outcome class and the same converted SQL: every statement is converted as the statement
\* with each run of whitespace written as one space is.
C22_WhitespaceInsensitive ==
  pc = "done" =>
    LET before == IF "assemble" \in Range(trace.stages) THEN cte_counter - 1 ELSE cte_counter
        spaced == convert(Normalize(sql), before)
    IN /\ trace.outcome = spaced.trace.outcome
       /\ result.success = spaced.result.success
       /\ result.success => result.converted_sql = spaced.result.converted_sql

\* C22, reached: with a newline between CONNECT and BY the statement was reported as not
\* hierarchical, where the same statement with a space there becomes a recursive CTE
C22_NewlineInConnectBy ==
  /\ pc = "done"
  /\ sql = Words(<<"SELECT", "id", "FROM", "emp", "CONNECT">>) \o <<"\n", "BY", " ">> \o PriorIdMgr
  /\ Normalize(sql) = Words(<<"SELECT", "id", "FROM", "emp", "CONNECT", "BY">>) \o <<" ">>
                        \o PriorIdMgr
  /\ trace.outcome = "not_connect_by"
  /\ ~has_connect_by(sql)
  /\ result.converted_sql = sql
  /\ convert(Normalize(sql), cte_counter).trace.outcome = "cte"

\* the text of the HAVING clause of a statement, <<>> if it has none
HavingText(s) == Clause(Normalize(s), <<"HAVING">>, {<<"ORDER", "BY">>}).text

\* C23: when the hierarchical statement has a HAVING clause, the parsed components hold its
\* text in having_clause, which is empty only for a statement without HAVING, and the clause
\* is in the assembled statement.
C23_HavingRecorded ==
  (pc = "done" /\ trace.components.ok /\ ~trace.components.is_sequence_generator) =>
    /\ trace.components.having_clause = HavingText(sql)
    /\ (result.success /\ HavingText(sql) # <<>>) =>
         ContainsSeq(result.converted_sql, <<"HAVING", " ">> \o HavingText(sql))

\* C23, reached: GROUP BY id HAVING COUNT(*) > 1 was parsed with GROUP BY id and no HAVING
\* text, and converted with success to a statement without HAVING
C23_HavingLost ==
  /\ pc = "done"
  /\ HavingText(sql) = <<"COUNT", "(", "*", ")", " ", ">", " ", "1">>
  /\ trace.outcome = "cte"
  /\ result.success
  /\ trace.components.group_by_clause = <<"id">>
  /\ trace.components.having_clause = <<>>
  /\ IsSuffix(<<"\n", "GROUP", " ", "BY", " ", "id">>, result.converted_sql)
  /\ "HAVING" \notin Range(result.converted_sql)

\* the clauses of the outer query, after FROM <cte>, read from the converted text
OuterTail(text, cte_name) ==
  LET at == Occurrences(text, <<"\n", "FROM", " ", cte_name>>)
  IN IF at = {} THEN <<>> ELSE Slice(text, (CHOOSE i \in at : \A j \in at : j <= i) + 4, Len(text))

\* the converted statement refers to the depth column: level in a clause of the outer query,
\* or <cte>.level in the select list of the recursive member
RefersToLevel(text, cols, cte_name) ==
  \/ "level" \in Range(OuterTail(text, cte_name))
  \/ ContainsSeq(CommaJoin(cols.recursive), <<cte_name, ".", "level">>)

\* the anchor and recursive select lists define a column named level
DefinesLevel(cols) ==
  \E j \in 1..Len(cols.anchor) :
    /\ ColumnName(cols.anchor[j]) = "level"
    /\ j <= Len(cols.recursive)
    /\ ColumnName(cols.recursive[j]) = "level"

\* C24: in every assembled statement a reference to the depth column level (the outer
\* WHERE level <op> <int>, the ORDER BY level, ... of ORDER SIBLINGS BY, <cte>.level + 1 in
\* the recursive form of a LEVEL expression) resolves to a column named level that the anchor
\* and recursive select lists define.
C24_LevelResolves ==
  (pc = "done" /\ trace.outcome = "cte"
     /\ RefersToLevel(result.converted_sql, trace.cte.cols, trace.cte.cte_name)) =>
    DefinesLevel(trace.cte.cols)

\* C24, reached: SELECT id ... ORDER SIBLINGS BY name, a statement without LEVEL, was
\* converted to a query ordered by level over a CTE whose only column is id
C24_OrderByUndefinedLevel ==
  /\ pc = "done"
  /\ trace.outcome = "cte"
  /\ result.success
  /\ ~trace.components.has_level
  /\ trace.components.order_siblings_by = <<"name">>
  /\ trace.cte.cols.anchor = <<<<"id">>>>
  /\ trace.cte.cols.recursive = <<<<"e", ".", "id">>>>
  /\ OuterTail(result.converted_sql, trace.cte.cte_name)
       = <<"\n", "ORDER", " ", "BY", " ", "level", ",", " ", "name">>

\* C25: cte_counter changes only on the recursive-CTE path: a call that ends as not
\* hierarchical, as a parse failure or as a sequence generator leaves it unchanged, and so
\* does every call that ends in failure, a failed CTE assembly included.
C25_CounterOnlyOnCtePath ==
  [][(pc = "idle" /\ pc' = "done") =>
       /\ trace'.outcome \in {"not_connect_by", "parse_failure", "sequence"}
            => cte_counter' = cte_counter
       /\ ~result'.success => cte_counter' = cte_counter
       /\ trace'.outcome = "cte" => cte_counter' = cte_counter + 1]_vars

\* C25, reached: a call that began with cte_counter below MaxCalls failed in CTE assembly
\* and left cte_counter at MaxCalls: the failed assembly consumed a counter value
C25_FailedAssemblyConsumesValue ==
  /\ pc = "done"
  /\ trace.outcome = "exception"
  /\ trace.stages = <<"detect", "parse", "assemble">>
  /\ ~result.success
  /\ result.converted_sql = sql
  /\ cte_counter = MaxCalls

\* the CTE names the threads emitted, each with the thread and its place in that thread
EmittedNames == {<<t, k>> : t \in DOMAIN threads, k \in 1..MaxThreadCalls}

\* C26: when two convert calls on one converter instance interleave between the read, the
\* increment and the write of cte_counter and the read that forms cte_name, no counter
\* update is lost (cte_counter is the number of increments made) and no two emitted
\* statements have the same CTE suffix.
C26_NoLostUpdateDistinctNames ==
  pc = "threads" =>
    /\ cte_counter = threads["t1"].stores + threads["t2"].stores
    /\ \A a \in EmittedNames, b \in EmittedNames :
         (a # b /\ a[2] <= Len(threads[a[1]].names) /\ b[2] <= Len(threads[b[1]].names))
           => threads[a[1]].names[a[2]] # threads[b[1]].names[b[2]]

\* C26, reached: two calls that both read cte_counter = 0 before either wrote it back both
\* emitted hierarchy_cte_1, and cte_counter is 1 after two increments
C26_SameSuffixTwice ==
  /\ pc = "threads"
  /\ threads["t1"].pc = "done"
  /\ threads["t2"].pc = "done"
  /\ threads["t1"].stores = 1
  /\ threads["t2"].stores = 1
  /\ cte_counter = 1
  /\ threads["t1"].result.success
  /\ threads["t2"].result.success
  /\ threads["t1"].cte_name = "hierarchy_cte_1"
  /\ threads["t2"].cte_name = "hierarchy_cte_1"
  /\ IsPrefix(<<"WITH", " ", "RECURSIVE", " ", "hierarchy_cte_1", " ">>,
              threads["t1"].result.converted_sql)
  /\ IsPrefix(<<"WITH", " ", "RECURSIVE", " ", "hierarchy_cte_1", " ">>,
              threads["t2"].result.converted_sql)

\* a select item without the alias it ends with
ExprPart(col) ==
  LET at == {k \in 1..Len(col) : Upper(col[k]) = "AS"}
  IN IF at = {} THEN col ELSE Strip(Slice(col, 1, (CHOOSE k \in at : \A j \in at : k <= j) - 1))

ArithmeticTokens == {"+", "-", "*"}

\* an expression of numbers, LEVEL and + - *
IsArithmetic(expr) ==
  /\ expr # <<>>
  /\ \A k \in 1..Len(expr) :
       IsWs(expr[k]) \/ expr[k] \in ArithmeticTokens \/ IsDigits(expr[k]) \/ Upper(expr[k]) = "LEVEL"

\* the value of an expression of numbers, level references and + - * under the precedence
\* of SQL (* before + and -, left to right), level being the value of LEVEL or <cte>.level;
\* sum is the value of the terms done, sign and prod the term being read
RECURSIVE ValueFrom(_, _, _, _, _, _)
ValueFrom(expr, i, level, sum, sign, prod) ==
  IF i > Len(expr) THEN sum + sign * prod
  ELSE IF expr[i] = "+" THEN ValueFrom(expr, i + 1, level, sum + sign * prod, 1, 1)
  ELSE IF expr[i] = "-" THEN ValueFrom(expr, i + 1, level, sum + sign * prod, -1, 1)
  ELSE IF IsDigits(expr[i]) THEN ValueFrom(expr, i + 1, level, sum, sign, prod * ParseInt(expr[i]))
  ELSE IF Upper(expr[i]) = "LEVEL" THEN ValueFrom(expr, i + 1, level, sum, sign, prod * level)
  ELSE ValueFrom(expr, i + 1, level, sum, sign, prod)

Value(expr, level) == ValueFrom(expr, 1, level, 0, 1, 1)

\* C27: for a select item that is an arithmetic expression over LEVEL, the anchor form has
\* the value of the expression for LEVEL = 1, and the recursive form, on a parent row of
\* depth d, the value of the expression for LEVEL = d + 1.
C27_LevelArithmetic ==
  (pc = "done" /\ trace.outcome = "cte") =>
    LET items == _split_select_columns(trace.components.select_clause)
        cols == trace.cte.cols
    IN \A i \in 1..Len(items) :
         (IsLevelExpr(items[i]) /\ IsArithmetic(ExprPart(items[i]))) =>
           LET j == ColumnIndex(items, i)
           IN /\ Value(ExprPart(cols.anchor[j]), 1) = Value(ExprPart(items[i]), 1)
              /\ \A d \in 1..MaxDepth :
                   Value(ExprPart(cols.recursive[j]), d) = Value(ExprPart(items[i]), d + 1)

\* C27, reached: LEVEL*10 AS x, beside LEVEL, has the recursive form <cte>.level + 1*10,
\* which is 11 on a parent of depth 1, where LEVEL*10 is 20 at depth 2
C27_PrecedenceBreaksProduct ==
  /\ pc = "done"
  /\ trace.outcome = "cte"
  /\ trace.components.select_clause
       = <<"LEVEL", "*", "10", " ", "AS", " ", "x", ",", " ", "LEVEL">>
  /\ trace.cte.cols.anchor = << <<"1", "*", "10", " ", "AS", " ", "x">>, Words(<<"1", "AS", "level">>) >>
  /\ trace.cte.cols.recursive[1]
       = <<CteName(cte_counter), ".", "level", " ", "+", " ", "1", "*", "10", " ", "AS", " ", "x">>
  /\ Value(ExprPart(trace.cte.cols.recursive[1]), 1) = 11
  /\ Value(<<"LEVEL", "*", "10">>, 2) = 20

\* the select list of the outer query, read from the converted text: the line after the CTE
OuterSelectLine(text) ==
  LET at == Occurrences(text, <<"\n", ")", "\n", "SELECT", " ">>)
      b == (CHOOSE i \in at : \A j \in at : j <= i) + 5
      ends == {k \in b..Len(text) : text[k] = "\n"}
  IN IF at = {} THEN <<>> ELSE Slice(text, b, (CHOOSE k \in ends : \A j \in ends : k <= j) - 1)

\* a line of SQL without its comment: -- comments out the rest of the line
Uncommented(line) ==
  LET at == {k \in 1..Len(line) : line[k] = "--"}
  IN IF at = {} THEN line ELSE Slice(line, 1, (CHOOSE k \in at : \A j \in at : k <= j) - 1)

\* the columns the outer query projects, comments apart
EffectiveColumns(text) == _split_select_columns(Uncommented(OuterSelectLine(text)))

IsPlaceholder(c) == c # <<>> /\ c[1] = "--"

NotPlaceholder(c) == ~IsPlaceholder(c)

\* the names of the columns of the CTE
DefinedNames(cols) == {ColumnName(cols.anchor[j]) : j \in 1..Len(cols.anchor)} \ {""}

\* C28: in every assembled statement the outer query projects, comments apart, one column
\* for each select item of the source that is not CONNECT_BY_ISLEAF, in source order, and
\* then the hidden level column when there is one; each is the name of a column of the CTE.
\* The commented placeholder of CONNECT_BY_ISLEAF takes no other column away.
C28_OuterProjection ==
  (pc = "done" /\ trace.outcome = "cte") =>
    LET cols == trace.cte.cols
        expected == SelectSeq(cols.output, NotPlaceholder)
    IN /\ EffectiveColumns(result.converted_sql) = expected
       /\ \A k \in 1..Len(expected) :
            Len(expected[k]) = 1 /\ expected[k][1] \in DefinedNames(cols)

\* C28, reached: for CONNECT_BY_ISLEAF, name AS n the outer select list is one line that
\* starts with the comment of the placeholder: the column n is commented out with it and
\* the outer query projects nothing
C28_PlaceholderCommentsOutColumn ==
  /\ pc = "done"
  /\ trace.outcome = "cte"
  /\ result.success
  /\ trace.cte.cols.anchor = <<Words(<<"name", "AS", "n">>)>>
  /\ trace.cte.cols.output = <<IsLeafPlaceholder("is_leaf"), <<"n">>>>
  /\ OuterSelectLine(result.converted_sql) = IsLeafPlaceholder("is_leaf") \o <<",", " ", "n">>
  /\ EffectiveColumns(result.converted_sql) = <<>>

\* token k of a statement is in a comment: a -- before it on its line
InComment(text, k) ==
  \E c \in 1..k : text[c] = "--" /\ \A n \in c..k : text[n] # "\n"

\* a hierarchical construct of Oracle starts at token k
OracleConstructAt(text, k) ==
  \/ Upper(text[k]) \in {"PRIOR", "CONNECT_BY_ROOT", "SYS_CONNECT_BY_PATH", "CONNECT_BY_ISLEAF"}
  \/ KwSeqEnd(text, k, <<"CONNECT", "BY">>) # 0
  \/ KwSeqEnd(text, k, <<"START", "WITH">>) # 0

\* C29: the executable part (outside the comments) of every successfully converted statement
\* has no CONNECT BY, START WITH, PRIOR, CONNECT_BY_ROOT, SYS_CONNECT_BY_PATH and
\* CONNECT_BY_ISLEAF in it, whatever the select items of the source.
C29_NoOracleConstructLeft ==
  (pc = "done" /\ result.success) =>
    \A k \in 1..Len(result.converted_sql) :
      OracleConstructAt(result.converted_sql, k) => InComment(result.converted_sql, k)

\* C29, reached: the unaliased item CONNECT_BY_ROOT id of a one-item select list is in the
\* select list of the anchor member as it was written, outside any comment
C29_RootLeftInAnchor ==
  /\ pc = "done"
  /\ result.success
  /\ trace.components.select_clause = Words(<<"CONNECT_BY_ROOT", "id">>)
  /\ ContainsSeq(result.converted_sql,
                 <<"\n">> \o Indent \o Words(<<"SELECT", "CONNECT_BY_ROOT", "id">>) \o <<"\n">>)
  /\ ContainsSeq(result.converted_sql,
                 <<"SELECT", " ", trace.cte.table_alias, ".", "CONNECT_BY_ROOT", " ", "AS", " ",
                   "id", "\n">>)

\* a statement that is SELECT <list> FROM DUAL CONNECT BY LEVEL <= <limit>, with at most an
\* ORDER BY clause after it, and nothing else
IsPureSequence(s) ==
  LET n == Normalize(s)
      p == FindWsFrom(n, 3, <<"DUAL">>)
      e == KwSeqEnd(n, SkipWs(n, p), <<"FROM", "DUAL", "CONNECT", "BY", "LEVEL">>)
      g == SkipWs(n, e)
      h == SkipWs(n, g + 1)
  IN /\ SelectMatch(n, <<"DUAL">>).found
     /\ p # 0
     /\ e # 0
     /\ g <= Len(n) /\ n[g] = "<="
     /\ h <= Len(n) /\ IsWord(n[h])
     /\ \/ h = Len(n)
        \/ /\ h + 1 <= Len(n) /\ IsWs(n[h + 1])
           /\ KwSeqEnd(n, h + 2, <<"ORDER", "BY">>) # 0

\* C30: the sequence generator returns a RANGE query, with success, only for a statement
\* that is a select list, FROM DUAL, CONNECT BY LEVEL <= <integer or identifier> and an
\* optional ORDER BY: a statement with anything else (a WHERE clause, more after the limit,
\* a FROM DUAL of a subquery) is not converted that way.
C30_SequenceOnlyForPureShape ==
  (pc = "done" /\ trace.outcome = "sequence" /\ result.success) => IsPureSequence(sql)

\* C30, reached: SELECT LEVEL FROM DUAL WHERE active = 1 CONNECT BY LEVEL <= 3 was converted,
\* with success and the note alone, to a RANGE query without the WHERE clause
C30_WhereDiscarded ==
  /\ pc = "done"
  /\ sql = Words(<<"SELECT", "LEVEL", "FROM", "DUAL", "WHERE", "active", "=", "1", "CONNECT",
                   "BY", "LEVEL", "<=", "3">>)
  /\ ~IsPureSequence(sql)
  /\ trace.outcome = "sequence"
  /\ result.success
  /\ result.converted_sql
       = <<"SELECT", " ", "id", "\n", "FROM", " ", "RANGE", "(", "1", ",", " ", "4", ")">>
  /\ result.warnings = <<>>
  /\ result.notes = <<SequenceNote>>

====
